---- MODULE Spec2Model ----
(***************************************************************************)
(* A model of reservations_report.py: the date filter, the reservation     *)
(* correlator (analyze_reservations_fixed), the utilization analyzer       *)
(* (analyze_reservation_utilization), the compute coverage pass            *)
(* (analyze_vm_coverage) and the report run (generate_fixed_report).       *)
(*                                                                         *)
(* Python values are tagged records: None, Str(chars), Num(n).  A string   *)
(* is a sequence of one-character strings, so that the regular            *)
(* expressions, split('/') and the date parsers are computed character by  *)
(* character.  Floats are integers (hours, currency units); a quotient    *)
(* that the code prints as a percentage is kept as an exact fraction.      *)
(* A key that is absent from a JSON object is the value None.              *)
(***************************************************************************)
EXTENDS Integers, Sequences, FiniteSets, TLC

(* ------------------------------ bounds -------------------------------- *)

\* Longest usage file (number of records) the runs are given.
MaxRecords == 3

(* --------------------------- Python values ---------------------------- *)

None == [t |-> "None"]
Str(s) == [t |-> "str", v |-> s]
Num(n) == [t |-> "num", v |-> n]

IsNum(x) == x.t = "num"

\* dict.get(key, default) on a record whose absent keys hold None.
Get(props, key, default) == IF props[key] = None THEN default ELSE props[key]

\* Python truthiness of the values that occur here.
Truthy(x) ==
    CASE x.t = "None" -> FALSE
      [] x.t = "str" -> x.v # <<>>
      [] x.t = "num" -> x.v # 0
      [] OTHER -> TRUE

(* ------------------------------ strings ------------------------------- *)

\* The characters that occur, in ASCII order.
Ascii ==
    <<" ", "-", ".", "/",
      "0", "1", "2", "3", "4", "5", "6", "7", "8", "9", ":",
      "A", "B", "C", "D", "E", "F", "G", "H", "I", "J", "K", "L", "M",
      "N", "O", "P", "Q", "R", "S", "T", "U", "V", "W", "X", "Y", "Z",
      "_",
      "a", "b", "c", "d", "e", "f", "g", "h", "i", "j", "k", "l", "m",
      "n", "o", "p", "q", "r", "s", "t", "u", "v", "w", "x", "y", "z">>

OrdOf ==
    [c \in {Ascii[i] : i \in 1..Len(Ascii)} |-> CHOOSE i \in 1..Len(Ascii) : Ascii[i] = c]
Ord(c) == OrdOf[c]

Digits == {"0", "1", "2", "3", "4", "5", "6", "7", "8", "9"}
IsDigit(c) == c \in Digits
DigitVal(c) == CHOOSE n \in 0..9 : Ascii[n + 5] = c
IsUpper(c) == Ord(c) >= Ord("A") /\ Ord(c) <= Ord("Z")
IsLower(c) == Ord(c) >= Ord("a") /\ Ord(c) <= Ord("z")

\* str.lower()
LowerOf ==
    [c \in DOMAIN OrdOf |-> IF IsUpper(c) THEN Ascii[Ord(c) - Ord("A") + Ord("a")] ELSE c]
LowerChar(c) == LowerOf[c]
Lower(s) == [i \in 1..Len(s) |-> LowerChar(s[i])]

\* s[:n] and s[n:] (n counts characters, as in Python slices)
Prefix(s, n) == SubSeq(s, 1, IF Len(s) < n THEN Len(s) ELSE n)
Suffix(s, n) == SubSeq(s, n + 1, Len(s))

\* sub occurs in s starting at (1-based) position p
MatchAt(s, sub, p) ==
    /\ p >= 1
    /\ p + Len(sub) - 1 <= Len(s)
    /\ \A k \in 1..Len(sub) : s[p + k - 1] = sub[k]

\* "sub in s"
Contains(s, sub) == \E p \in 1..(Len(s) + 1) : MatchAt(s, sub, p)

\* str.strip() of spaces
RECURSIVE LStrip(_)
LStrip(s) == IF s # <<>> /\ Head(s) = " " THEN LStrip(Tail(s)) ELSE s
RECURSIVE RStrip(_)
RStrip(s) ==
    IF s # <<>> /\ s[Len(s)] = " " THEN RStrip(SubSeq(s, 1, Len(s) - 1)) ELSE s
Strip(s) == RStrip(LStrip(s))

\* int() of a run of digits
RECURSIVE ToInt(_)
ToInt(s) ==
    IF s = <<>> THEN 0
    ELSE ToInt(SubSeq(s, 1, Len(s) - 1)) * 10 + DigitVal(s[Len(s)])

AllDigits(s) == \A k \in 1..Len(s) : IsDigit(s[k])

\* Length of the longest run of characters of s from position p on that
\* satisfy the class test (a greedy  X*  of a regular expression).
RECURSIVE RunLen(_, _, _)
RunLen(s, p, cls) ==
    IF p <= Len(s) /\ s[p] \in cls THEN 1 + RunLen(s, p + 1, cls) ELSE 0

LowerLetters == {Ascii[i] : i \in Ord("a")..Ord("z")}
UpperLetters == {Ascii[i] : i \in Ord("A")..Ord("Z")}

\* Lexicographic order of strings by character code (Python's str order).
RECURSIVE StrLess(_, _)
StrLess(a, b) ==
    IF b = <<>> THEN FALSE
    ELSE IF a = <<>> THEN TRUE
    ELSE IF Head(a) = Head(b) THEN StrLess(Tail(a), Tail(b))
    ELSE Ord(Head(a)) < Ord(Head(b))

(* ------------------------------- dates -------------------------------- *)

Date(y, m, d) == [t |-> "date", y |-> y, m |-> m, d |-> d]

DateLess(a, b) ==
    \/ a.y < b.y
    \/ a.y = b.y /\ a.m < b.m
    \/ a.y = b.y /\ a.m = b.m /\ a.d < b.d

IsLeap(y) == (y % 4 = 0 /\ y % 100 # 0) \/ y % 400 = 0

DaysInMonth(y, m) ==
    IF m = 2 THEN (IF IsLeap(y) THEN 29 ELSE 28)
    ELSE IF m \in {4, 6, 9, 11} THEN 30 ELSE 31

\* datetime(y, m, d) accepts year 1..9999 and a day that exists.
ValidYMD(y, m, d) ==
    /\ y >= 1 /\ y <= 9999
    /\ m >= 1 /\ m <= 12
    /\ d >= 1 /\ d <= DaysInMonth(y, m)

\* datetime.strptime(t, "%Y-%m-%d").date(): four digits, '-', a month of one
\* or two digits, '-', a day of one or two digits, and nothing after it.
\* The year 0001 is a valid year.  None stands for the ValueError.
strptime_ymd(t) ==
    LET fits(ml) ==
            /\ Len(t) >= 7 + ml
            /\ Len(t) <= 8 + ml
            /\ AllDigits(SubSeq(t, 1, 4))
            /\ t[5] = "-"
            /\ AllDigits(SubSeq(t, 6, 5 + ml))
            /\ t[6 + ml] = "-"
            /\ AllDigits(SubSeq(t, 7 + ml, Len(t)))
            /\ ValidYMD(ToInt(SubSeq(t, 1, 4)), ToInt(SubSeq(t, 6, 5 + ml)),
                        ToInt(SubSeq(t, 7 + ml, Len(t))))
        mk(ml) == Date(ToInt(SubSeq(t, 1, 4)), ToInt(SubSeq(t, 6, 5 + ml)),
                       ToInt(SubSeq(t, 7 + ml, Len(t))))
    IN  IF fits(2) THEN mk(2) ELSE IF fits(1) THEN mk(1) ELSE None

\* s.replace("Z", "+00:00")
RECURSIVE ReplaceZ(_)
ReplaceZ(s) ==
    IF s = <<>> THEN <<>>
    ELSE IF Head(s) = "Z" THEN <<"+", "0", "0", ":", "0", "0">> \o ReplaceZ(Tail(s))
    ELSE <<Head(s)>> \o ReplaceZ(Tail(s))

\* datetime.fromisoformat(u).date() for the forms that reach it: it is
\* called only after strptime rejected u[:10], which leaves the basic
\* format YYYYMMDD, alone or followed by THHMMSS and an optional +00:00.
\* None stands for the ValueError.
fromisoformat_date(u) ==
    LET rest == Suffix(u, 8)
        timeOk ==
            \/ rest = <<>>
            \/ /\ Len(rest) \in {7, 13}
               /\ rest[1] = "T"
               /\ AllDigits(SubSeq(rest, 2, 7))
               /\ ToInt(SubSeq(rest, 2, 3)) <= 23
               /\ ToInt(SubSeq(rest, 4, 5)) <= 59
               /\ ToInt(SubSeq(rest, 6, 7)) <= 59
               /\ Len(rest) = 13 => SubSeq(rest, 8, 13) = <<"+", "0", "0", ":", "0", "0">>
    IN  IF /\ Len(u) >= 8
           /\ AllDigits(SubSeq(u, 1, 8))
           /\ ValidYMD(ToInt(SubSeq(u, 1, 4)), ToInt(SubSeq(u, 5, 6)),
                       ToInt(SubSeq(u, 7, 8)))
           /\ timeOk
        THEN Date(ToInt(SubSeq(u, 1, 4)), ToInt(SubSeq(u, 5, 6)), ToInt(SubSeq(u, 7, 8)))
        ELSE None

\* parse_iso_date(s): s is None or Str(chars); the result is a Date or None.
parse_iso_date(s) ==
    IF ~Truthy(s) THEN None
    ELSE LET strict == strptime_ymd(Prefix(s.v, 10))
         IN  IF strict # None THEN strict ELSE fromisoformat_date(ReplaceZ(s.v))

\* extract_record_date(props): a date object is always truthy, so the first
\* field that parses wins.
RECURSIVE FirstDate(_, _)
FirstDate(props, keys) ==
    IF keys = <<>> THEN None
    ELSE LET d == parse_iso_date(props[Head(keys)])
         IN  IF d # None THEN d ELSE FirstDate(props, Tail(keys))

DateKeys == <<"date", "usageStart", "servicePeriodStartDate">>
FallbackDateKeys == <<"usageEnd", "servicePeriodEndDate">>

\* extract_record_date that tries the end fields before the start fields.
extract_record_date_EndFirst(props) ==
    LET d == FirstDate(props, FallbackDateKeys)
    IN  IF d # None THEN d ELSE FirstDate(props, DateKeys)

extract_record_date(props) ==
    LET d == FirstDate(props, DateKeys)
    IN  IF d # None THEN d ELSE FirstDate(props, FallbackDateKeys)

\* FilterKeeps with an exclusive lower bound (rd <= from_date is dropped).
FilterKeeps_ExclusiveFrom(rec, from_date, to_date) ==
    LET rd == extract_record_date(rec)
    IN  /\ rd # None
        /\ ~(from_date # None /\ ~DateLess(from_date, rd))
        /\ ~(to_date # None /\ DateLess(to_date, rd))

\* The body of the loop of filter_usage_by_date for one record: does the
\* record go to the filtered list, and is it counted as skipped.
FilterKeeps(rec, from_date, to_date) ==
    LET rd == extract_record_date(rec)
    IN  /\ rd # None
        /\ ~(from_date # None /\ DateLess(rd, from_date))
        /\ ~(to_date # None /\ DateLess(to_date, rd))

\* FilterSkips with the count placed before the test of the date.
FilterSkips_Always(rec) == TRUE

FilterSkips(rec) == extract_record_date(rec) = None

RECURSIVE FilterLoop(_, _, _)
FilterLoop(usage, from_date, to_date) ==
    IF usage = <<>> THEN [filtered |-> <<>>, skipped |-> 0]
    ELSE LET r == FilterLoop(Tail(usage), from_date, to_date)
         IN  [filtered |-> IF FilterKeeps(Head(usage), from_date, to_date)
                           THEN <<Head(usage)>> \o r.filtered ELSE r.filtered,
              skipped |-> IF FilterSkips(Head(usage))
                          THEN r.skipped + 1 ELSE r.skipped]

\* filter_usage_by_date without the early return for absent bounds.
filter_usage_by_date_AlwaysLoop(usage, from_date, to_date) ==
    FilterLoop(usage, from_date, to_date)

\* filter_usage_by_date(usage_data, from_date, to_date) -> (filtered, skipped)
filter_usage_by_date(usage, from_date, to_date) ==
    IF from_date = None /\ to_date = None
    THEN [filtered |-> usage, skipped |-> 0]
    ELSE FilterLoop(usage, from_date, to_date)

(* --------------------------- usage records ---------------------------- *)

\* The 'properties' object of one usage record.  A key the record does not
\* carry holds None.  additionalInfo is None, the empty string, or a JSON
\* text, which is represented by the document json.loads yields for it:
\*   [t |-> "json", k |-> "invalid"]                 json.loads raises
\*   [t |-> "json", k |-> "object", f |-> fields]    a JSON object
\*   [t |-> "json", k |-> "list", items |-> set]     a JSON list of strings
\*   [t |-> "json", k |-> "number"]                  a JSON number
\*   [t |-> "json", k |-> "string", v |-> chars]     a JSON string
\* The fields of an object are ReservationOrderId, ServiceType and
\* ConsumedQuantity, each None when the object lacks the key.
\* Fields that the report only copies into its text (meterSubCategory,
\* the service period of a purchase, ReservationId, effectivePrice) are
\* left out.  ReservationOrderId and ServiceType are strings.
NoProps ==
    [instanceName |-> None, chargeType |-> None, additionalInfo |-> None,
     costInBillingCurrency |-> None, quantity |-> None, product |-> None,
     meterRegion |-> None, meterCategory |-> None, consumedService |-> None,
     unitOfMeasure |-> None, payGPrice |-> None,
     date |-> None, usageStart |-> None, servicePeriodStartDate |-> None,
     usageEnd |-> None, servicePeriodEndDate |-> None]

JsonInvalid == [t |-> "json", k |-> "invalid"]
JsonObject(f) == [t |-> "json", k |-> "object", f |-> f]
JsonList(items) == [t |-> "json", k |-> "list", items |-> items]
JsonNumber == [t |-> "json", k |-> "number"]
JsonString(v) == [t |-> "json", k |-> "string", v |-> v]
InfoFields(rid, stype, qty) ==
    [ReservationOrderId |-> rid, ServiceType |-> stype, ConsumedQuantity |-> qty]

s_reservationOrders ==
    <<"r", "e", "s", "e", "r", "v", "a", "t", "i", "o", "n", "O", "r", "d", "e", "r", "s">>
s_ReservationOrderId ==
    <<"R", "e", "s", "e", "r", "v", "a", "t", "i", "o", "n", "O", "r", "d", "e", "r", "I", "d">>
s_Purchase == <<"P", "u", "r", "c", "h", "a", "s", "e">>
s_Usage == <<"U", "s", "a", "g", "e">>
s_Standard_ == <<"S", "t", "a", "n", "d", "a", "r", "d", "_">>
s_Unknown == <<"U", "n", "k", "n", "o", "w", "n">>
s_UnknownCost ==
    <<"U", "n", "k", "n", "o", "w", "n", " ", "(", "p", "u", "r", "c", "h", "a", "s", "e", "d",
      " ", "o", "u", "t", "s", "i", "d", "e", " ", "d", "a", "t", "a", " ",
      "p", "e", "r", "i", "o", "d", ")">>
s_VMInstance == <<"V", "M", " ", "I", "n", "s", "t", "a", "n", "c", "e">>

MinOf(S) == CHOOSE x \in S : \A y \in S : x <= y
MaxOf(S) == CHOOSE x \in S : \A y \in S : x >= y

\* json.loads(additional_info): the document, or the exception.
json_loads(ai) ==
    IF ai.k = "invalid" THEN [raised |-> TRUE]
    ELSE [raised |-> FALSE, doc |-> ai]

(* ------------------------- record classifier -------------------------- *)

\* extract_reservation_id that takes the rest of the path as the ID.
extract_reservation_id_ToEnd(name) ==
    LET pat == s_reservationOrders \o <<"/">>
        starts == {p \in 1..Len(name) :
                     /\ MatchAt(name, pat, p)
                     /\ p + Len(pat) <= Len(name)
                     /\ name[p + Len(pat)] # "/"}
    IN  IF starts = {} THEN None
        ELSE Str(Suffix(name, MinOf(starts) + Len(pat) - 1))

\* extract_reservation_id: re.search(r'reservationOrders/([^/]+)', name),
\* group 1 of the leftmost match, or None.
extract_reservation_id(name) ==
    LET pat == s_reservationOrders \o <<"/">>
        starts == {p \in 1..Len(name) :
                     /\ MatchAt(name, pat, p)
                     /\ p + Len(pat) <= Len(name)
                     /\ name[p + Len(pat)] # "/"}
    IN  IF starts = {} THEN None
        ELSE LET b == MinOf(starts) + Len(pat)
                 n == CHOOSE k \in 1..Len(name) :
                        /\ \A j \in 0..(k - 1) : name[b + j] # "/"
                        /\ (b + k > Len(name) \/ name[b + k] = "/")
             IN  Str(SubSeq(name, b, b + n - 1))

\* extract_vm_size: re.search(r'Standard_[A-Za-z0-9_]+', product), the whole
\* leftmost match, or 'Unknown'.
SizeChars == Digits \cup LowerLetters \cup UpperLetters \cup {"_"}

extract_vm_size(product) ==
    LET starts == {p \in 1..Len(product) :
                     /\ MatchAt(product, s_Standard_, p)
                     /\ RunLen(product, p + Len(s_Standard_), SizeChars) >= 1}
    IN  IF starts = {} THEN s_Unknown
        ELSE LET p == MinOf(starts)
             IN  SubSeq(product, p,
                        p + Len(s_Standard_) - 1
                          + RunLen(product, p + Len(s_Standard_), SizeChars))

\* get_vm_core_count: re.search(r'D(\d+)[a-z]*_v\d+', service_type), int of
\* group 1 of the leftmost match, else 0.  A digit can be followed in the
\* pattern only by a digit, a lower-case letter or '_', so group 1 is the
\* whole run of digits after the 'D'.
CoreMatchAt(s, p) ==
    LET nd == RunLen(s, p + 1, Digits)
        nl == RunLen(s, p + 1 + nd, LowerLetters)
        q == p + 1 + nd + nl
    IN  /\ s[p] = "D"
        /\ nd >= 1
        /\ q + 2 <= Len(s)
        /\ s[q] = "_"
        /\ s[q + 1] = "v"
        /\ IsDigit(s[q + 2])

get_vm_core_count(service_type) ==
    IF service_type = <<>> \/ service_type = s_Unknown THEN 0
    ELSE LET starts == {p \in 1..Len(service_type) : CoreMatchAt(service_type, p)}
         IN  IF starts = {} THEN 0
             ELSE LET p == MinOf(starts)
                  IN  ToInt(SubSeq(service_type, p + 1,
                                   p + RunLen(service_type, p + 1, Digits)))

\* instance_name.split('/')[-1] if '/' in instance_name else instance_name
vm_short_name(name) ==
    LET slashes == {p \in 1..Len(name) : name[p] = "/"}
    IN  IF slashes = {} THEN name ELSE Suffix(name, MaxOf(slashes))

(* ----------------------- reservation correlator ----------------------- *)

\* A dict is a function whose domain is the set of its keys.
EmptyDict == [k \in {} |-> None]
DictPut(d, k, v) == [x \in DOMAIN d \cup {k} |-> IF x = k THEN v ELSE d[x]]

\* VisibleBody that keeps the record already registered under the ID.
VisibleBody_FirstWins(visible, props) ==
    LET instance_name == Get(props, "instanceName", Str(<<>>)).v
    IN  IF /\ Contains(instance_name, s_reservationOrders)
           /\ props.chargeType = Str(s_Purchase)
        THEN LET reservation_id == extract_reservation_id(instance_name)
             IN  IF Truthy(reservation_id) /\ reservation_id.v \notin DOMAIN visible
                 THEN DictPut(visible, reservation_id.v, props)
                 ELSE visible
        ELSE visible

\* The body of the first loop of analyze_reservations_fixed for one record:
\* visible_reservations after the record.
VisibleBody(visible, props) ==
    LET instance_name == Get(props, "instanceName", Str(<<>>)).v
    IN  IF /\ Contains(instance_name, s_reservationOrders)
           /\ props.chargeType = Str(s_Purchase)
        THEN LET reservation_id == extract_reservation_id(instance_name)
             IN  IF Truthy(reservation_id)
                 THEN DictPut(visible, reservation_id.v, props)
                 ELSE visible
        ELSE visible

\* The try block of the second loop for one record whose additionalInfo is
\* truthy: what the block does before it ends or raises.
\*   "add"   the record carries ReservationOrderId: res_id and the
\*           consumption_data appended for it
\*   "none"  the block ends without adding anything
\*   "raise" json.loads raised, or the 'in' test or the subscript raised a
\*           TypeError because the document is not an object
ConsumptionTry(props) ==
    LET loaded == json_loads(props.additionalInfo)
        doc == loaded.doc
    IN  IF loaded.raised THEN [outcome |-> "raise"]
        ELSE CASE doc.k = "object" ->
                    IF doc.f.ReservationOrderId # None
                    THEN [outcome |-> "add",
                          res_id |-> doc.f.ReservationOrderId.v,
                          data |-> [instance_name |-> Get(props, "instanceName", Str(<<>>)).v,
                                    cost |-> Get(props, "costInBillingCurrency", Num(0)).v,
                                    consumed_quantity |->
                                        IF doc.f.ConsumedQuantity # None
                                        THEN doc.f.ConsumedQuantity
                                        ELSE Get(props, "quantity", Num(0)),
                                    service_type |-> Get(doc.f, "ServiceType", Str(<<>>)).v]]
                    ELSE [outcome |-> "none"]
               [] doc.k = "list" ->
                    IF s_ReservationOrderId \in doc.items
                    THEN [outcome |-> "raise"] ELSE [outcome |-> "none"]
               [] doc.k = "string" ->
                    IF Contains(doc.v, s_ReservationOrderId)
                    THEN [outcome |-> "raise"] ELSE [outcome |-> "none"]
               [] OTHER -> [outcome |-> "raise"]

\* ConsumptionBody without the try/except around the block.
ConsumptionBody_NoExcept(consumption, seen, props) ==
    LET same == [all_consumption |-> consumption, all_reservations_seen |-> seen,
                 raised |-> FALSE]
    IN  IF ~Truthy(Get(props, "additionalInfo", Str(<<>>))) THEN same
        ELSE LET r == ConsumptionTry(props)
             IN  IF r.outcome = "add"
                 THEN [all_consumption |->
                           DictPut(consumption, r.res_id,
                                   (IF r.res_id \in DOMAIN consumption
                                    THEN consumption[r.res_id] ELSE <<>>)
                                     \o <<r.data>>),
                       all_reservations_seen |-> seen \cup {r.res_id},
                       raised |-> FALSE]
                 ELSE [same EXCEPT !.raised = (r.outcome = "raise")]

\* The body of the second loop of analyze_reservations_fixed for one record:
\* the consumption map and the set of IDs after the record, and whether an
\* exception leaves the loop ('except Exception: pass' lets none out).
ConsumptionBody(consumption, seen, props) ==
    LET same == [all_consumption |-> consumption, all_reservations_seen |-> seen,
                 raised |-> FALSE]
    IN  IF ~Truthy(Get(props, "additionalInfo", Str(<<>>))) THEN same
        ELSE LET r == ConsumptionTry(props)
             IN  IF r.outcome = "add"
                 THEN [all_consumption |->
                           DictPut(consumption, r.res_id,
                                   (IF r.res_id \in DOMAIN consumption
                                    THEN consumption[r.res_id] ELSE <<>>)
                                     \o <<r.data>>),
                       all_reservations_seen |-> seen \cup {r.res_id},
                       raised |-> FALSE]
                 ELSE same

(* ------------------------ utilization analyzer ------------------------ *)

NewUsage == [cost |-> 0, consumed_hours |-> 0, service_types |-> {}, cores_used |-> 0]

\* The body of the aggregation loop of analyze_reservation_utilization for
\* one consumption record.
AggregateBody(resource_usage, rec) ==
    LET vm_name == vm_short_name(rec.instance_name)
        cur == IF vm_name \in DOMAIN resource_usage
               THEN resource_usage[vm_name] ELSE NewUsage
        cores == get_vm_core_count(rec.service_type)
    IN  DictPut(resource_usage, vm_name,
                [cost |-> cur.cost + rec.cost,
                 consumed_hours |->
                     IF IsNum(rec.consumed_quantity)
                     THEN cur.consumed_hours + rec.consumed_quantity.v
                     ELSE cur.consumed_hours,
                 service_types |->
                     IF rec.service_type # <<>>
                     THEN cur.service_types \cup {rec.service_type}
                     ELSE cur.service_types,
                 cores_used |-> IF cores > cur.cores_used THEN cores ELSE cur.cores_used])

RECURSIVE AggregateLoop(_, _)
AggregateLoop(resource_usage, recs) ==
    IF recs = <<>> THEN resource_usage
    ELSE AggregateLoop(AggregateBody(resource_usage, Head(recs)), Tail(recs))

\* The loop over the set of service types of a hidden reservation, visited
\* in the order given: the (max_cores, reserved_size) it ends with.
RECURSIVE InferLoop(_, _)
InferLoop(acc, order) ==
    IF order = <<>> THEN acc
    ELSE LET cores == get_vm_core_count(Head(order))
         IN  InferLoop(IF cores > acc.reserved_cores
                       THEN [reserved_cores |-> cores, reserved_size |-> Head(order)]
                       ELSE acc,
                       Tail(order))

\* The distinct non-empty service types of the consumption records.
ServiceTypesOf(recs) ==
    {recs[i].service_type : i \in {j \in 1..Len(recs) : recs[j].service_type # <<>>}}

\* The orders in which a set can be iterated.
OrdersOf(S) ==
    {o \in [1..Cardinality(S) -> S] : \A i, j \in 1..Cardinality(S) : i # j => o[i] # o[j]}

\* HiddenReserved that keeps the service type visited last.
HiddenReserved_LastSeen(recs, order) ==
    IF order = <<>> THEN [reserved_cores |-> 0, reserved_size |-> s_Unknown]
    ELSE [reserved_cores |-> get_vm_core_count(order[Len(order)]),
          reserved_size |-> order[Len(order)]]

\* The reserved side of a hidden reservation (the else branch).
HiddenReserved(recs, order) ==
    InferLoop([reserved_cores |-> 0, reserved_size |-> s_Unknown], order)

\* analyze_reservation_utilization whose else branch takes the cost default
\* of the visible branch (0) and leaves the product empty.
analyze_reservation_utilization_HiddenAsZero(reservation_id, recs, visible, order) ==
    LET is_visible == reservation_id \in DOMAIN visible
        props == visible[reservation_id]
        product == Get(props, "product", Str(s_Unknown)).v
        reserved_size == extract_vm_size(product)
        inferred == HiddenReserved(recs, order)
    IN  [reservation_id |-> reservation_id,
         cost |-> IF is_visible THEN Get(props, "costInBillingCurrency", Num(0))
                  ELSE Num(0),
         product |-> IF is_visible THEN product ELSE <<>>,
         region |-> IF is_visible THEN Get(props, "meterRegion", Str(s_Unknown)).v
                    ELSE s_Unknown,
         reserved_size |-> IF is_visible THEN reserved_size ELSE inferred.reserved_size,
         reserved_cores |-> IF is_visible THEN get_vm_core_count(reserved_size)
                            ELSE inferred.reserved_cores,
         resource_usage |-> AggregateLoop(EmptyDict, recs),
         is_visible |-> is_visible]

\* analyze_reservation_utilization(reservation_id, consumption_records,
\* visible_reservations); order is the iteration order of the set of
\* service types, which Python leaves open.
analyze_reservation_utilization(reservation_id, recs, visible, order) ==
    LET is_visible == reservation_id \in DOMAIN visible
        props == visible[reservation_id]
        product == Get(props, "product", Str(s_Unknown)).v
        reserved_size == extract_vm_size(product)
        inferred == HiddenReserved(recs, order)
    IN  [reservation_id |-> reservation_id,
         cost |-> IF is_visible THEN Get(props, "costInBillingCurrency", Num(0))
                  ELSE Str(s_UnknownCost),
         product |-> IF is_visible THEN product ELSE s_Unknown,
         region |-> IF is_visible THEN Get(props, "meterRegion", Str(s_Unknown)).v
                    ELSE s_Unknown,
         reserved_size |-> IF is_visible THEN reserved_size ELSE inferred.reserved_size,
         reserved_cores |-> IF is_visible THEN get_vm_core_count(reserved_size)
                            ELSE inferred.reserved_cores,
         resource_usage |-> AggregateLoop(EmptyDict, recs),
         is_visible |-> is_visible]

(* ------------------------- report: reservations ------------------------ *)

\* A float quotient, kept exact; (a / b) * 100 is Pct(a, b).  Dividing by
\* zero gives the exception instead of a value.
Frac(n, d) == [t |-> "frac", num |-> n, den |-> d]
ZeroDivisionError == [t |-> "ZeroDivisionError"]
Pct(a, b) == IF b = 0 THEN ZeroDivisionError ELSE Frac(a * 100, b)

\* sorted(S) for a set of strings
RECURSIVE Sorted(_)
Sorted(S) ==
    IF S = {} THEN <<>>
    ELSE LET m == CHOOSE x \in S : \A y \in S \ {x} : StrLess(x, y)
         IN  <<m>> \o Sorted(S \ {m})

\* sum(usage[field] for usage in resource_usage.values())
RECURSIVE SumUsage(_, _, _)
SumUsage(resource_usage, names, field) ==
    IF names = {} THEN 0
    ELSE LET n == CHOOSE x \in names : TRUE
         IN  resource_usage[n][field] + SumUsage(resource_usage, names \ {n}, field)

TotalCoresUsed(analysis) ==
    SumUsage(analysis.resource_usage, DOMAIN analysis.resource_usage, "cores_used")

\* CoreUtilization without the guard reserved_cores > 0.
CoreUtilization_NoGuard(total_cores_used, reserved_cores) ==
    Pct(total_cores_used, reserved_cores)

\* The "Core Utilization" line: the percentage, or None when the line is
\* not printed.
CoreUtilization(total_cores_used, reserved_cores) ==
    IF reserved_cores > 0 THEN Pct(total_cores_used, reserved_cores) ELSE None

\* The warning under one beneficiary resource: None when no warning is
\* printed, the efficiency when the resource uses fewer cores than are
\* reserved, "over" when it needs more.
ResourceWarning(cores_used, reserved_cores) ==
    IF reserved_cores > 0 /\ cores_used # reserved_cores
    THEN IF cores_used < reserved_cores
         THEN [kind |-> "under", efficiency |-> Pct(cores_used, reserved_cores)]
         ELSE [kind |-> "over"]
    ELSE None

\* The cost that one reservation adds to total_visible_cost.
VisibleCostOf(analysis) ==
    IF analysis.is_visible /\ IsNum(analysis.cost) THEN analysis.cost.v ELSE 0

\* What the body of the reservation loop of generate_fixed_report prints for
\* one analysis.
ReservationSection(analysis) ==
    [reservation_id |-> analysis.reservation_id,
     is_visible |-> analysis.is_visible,
     cost |-> analysis.cost,
     product |-> analysis.product,
     outside_period_warning |-> ~analysis.is_visible,
     total_cores_used |-> TotalCoresUsed(analysis),
     reserved_cores |-> analysis.reserved_cores,
     utilization_pct |-> CoreUtilization(TotalCoresUsed(analysis), analysis.reserved_cores),
     total_consumed_hours |->
         SumUsage(analysis.resource_usage, DOMAIN analysis.resource_usage, "consumed_hours"),
     resources |->
         [n \in DOMAIN analysis.resource_usage |->
             [cores_used |-> analysis.resource_usage[n].cores_used,
              consumed_hours |-> analysis.resource_usage[n].consumed_hours,
              cost |-> analysis.resource_usage[n].cost,
              warning |-> ResourceWarning(analysis.resource_usage[n].cores_used,
                                          analysis.reserved_cores)]]]

\* Did computing the section divide by zero.
SectionRaised(section) ==
    \/ section.utilization_pct = ZeroDivisionError
    \/ \E n \in DOMAIN section.resources :
          /\ section.resources[n].warning # None
          /\ section.resources[n].warning.kind = "under"
          /\ section.resources[n].warning.efficiency = ZeroDivisionError

(* ------------------------- report: optimization ------------------------ *)

\* Policy thresholds of the combined efficiency of a group.
LowEfficiency == 80
HighEfficiency == 120

InGroups(analysis) ==
    Contains(analysis.product, s_VMInstance) \/ analysis.reserved_cores > 0

GroupKey(analysis) == analysis.reserved_size \o <<"_">> \o analysis.region

\* The indices of the analyses that fall into the group of a key.
GroupMembers(analyses, key) ==
    {i \in 1..Len(analyses) : InGroups(analyses[i]) /\ GroupKey(analyses[i]) = key}

RECURSIVE SumOver(_, _)
SumOver(f, S) ==
    IF S = {} THEN 0
    ELSE LET i == CHOOSE x \in S : TRUE IN f[i] + SumOver(f, S \ {i})

\* The "Combined" line of a group: None when it is not printed.
CombinedEfficiency(total_used_cores, total_reserved_cores) ==
    IF total_reserved_cores > 0 THEN Pct(total_used_cores, total_reserved_cores) ELSE None

\* GroupAdvice whose lower threshold is inclusive.
GroupAdvice_InclusiveLow(efficiency) ==
    IF efficiency.num <= LowEfficiency * efficiency.den THEN "consolidate"
    ELSE IF efficiency.num > HighEfficiency * efficiency.den THEN "upsize"
    ELSE "none"

\* The advice under the Combined line.  efficiency < 80 and > 120 are
\* compared on the exact fraction.
GroupAdvice(efficiency) ==
    IF efficiency.num < LowEfficiency * efficiency.den THEN "consolidate"
    ELSE IF efficiency.num > HighEfficiency * efficiency.den THEN "upsize"
    ELSE "none"

\* What the optimization analysis prints for the group of a key with more
\* than one reservation.
GroupSection(analyses, key) ==
    LET members == GroupMembers(analyses, key)
        reserved == [i \in members |-> analyses[i].reserved_cores]
        used == [i \in members |-> TotalCoresUsed(analyses[i])]
        costs == [i \in members |->
                     IF IsNum(analyses[i].cost) THEN analyses[i].cost.v ELSE 0]
        combined == CombinedEfficiency(SumOver(used, members), SumOver(reserved, members))
    IN  [members |-> {analyses[i].reservation_id : i \in members},
         total_reserved_cores |-> SumOver(reserved, members),
         total_used_cores |-> SumOver(used, members),
         total_cost |-> SumOver(costs, members),
         combined |-> combined,
         advice |-> IF combined = None \/ combined = ZeroDivisionError
                    THEN "none" ELSE GroupAdvice(combined)]

\* The optimization analysis of generate_fixed_report: one section per
\* group of more than one reservation.
OptimizationAnalysis(analyses) ==
    LET keys == {GroupKey(analyses[i]) :
                    i \in {j \in 1..Len(analyses) : InGroups(analyses[j])}}
        multi == {k \in keys : Cardinality(GroupMembers(analyses, k)) > 1}
    IN  [k \in multi |-> GroupSection(analyses, k)]

(* --------------------------- compute coverage -------------------------- *)

s_virtual_machines ==
    <<"v", "i", "r", "t", "u", "a", "l", " ", "m", "a", "c", "h", "i", "n", "e", "s">>
s_microsoft_compute ==
    <<"m", "i", "c", "r", "o", "s", "o", "f", "t", ".", "c", "o", "m", "p", "u", "t", "e">>
s_hour == <<"h", "o", "u", "r">>
s_unknown_vm == <<"(", "u", "n", "k", "n", "o", "w", "n", ")">>
s_NA == <<"N", "/", "A">>

\* (props.get(key) or '').strip().lower()
Normalized(props, key) ==
    IF Truthy(props[key]) THEN Lower(Strip(props[key].v)) ELSE <<>>

\* is_compute that compares without lower().
is_compute_CaseSensitive(props) ==
    /\ Truthy(props.meterCategory)
    /\ Strip(props.meterCategory.v)
          = <<"V", "i", "r", "t", "u", "a", "l", " ", "M", "a", "c", "h", "i", "n", "e", "s">>
    /\ Truthy(props.consumedService)
    /\ Strip(props.consumedService.v)
          = <<"M", "i", "c", "r", "o", "s", "o", "f", "t", ".", "C", "o", "m", "p", "u", "t", "e">>
    /\ Truthy(props.unitOfMeasure)
    /\ Contains(Strip(props.unitOfMeasure.v), <<"H", "o", "u", "r">>)

\* is_compute(props)
is_compute(props) ==
    /\ Normalized(props, "meterCategory") = s_virtual_machines
    /\ Normalized(props, "consumedService") = s_microsoft_compute
    /\ Contains(Normalized(props, "unitOfMeasure"), s_hour)

NewBucket ==
    [total_hours |-> 0, reserved_hours |-> 0, total_cost |-> 0, reserved_cost |-> 0,
     payg_equiv |-> 0, uncovered_payg_cost |-> 0, payg_known_hours |-> 0]

\* info of analyze_vm_coverage: the document of additionalInfo, or the empty
\* object when additionalInfo is falsy or json.loads raises.
EmptyInfo == JsonObject(InfoFields(None, None, None))

CoverageInfo(props) ==
    LET additional_info == Get(props, "additionalInfo", Str(<<>>))
    IN  IF Truthy(additional_info)
        THEN IF json_loads(additional_info).raised THEN EmptyInfo
             ELSE json_loads(additional_info).doc
        ELSE EmptyInfo

\* float(x) of a number or of a string of digits; None stands for the
\* ValueError.
ToFloat(x) ==
    IF IsNum(x) THEN x
    ELSE IF x.v # <<>> /\ AllDigits(x.v) THEN Num(ToInt(x.v)) ELSE None

\* qty = float(info.get('ConsumedQuantity', props.get('quantity', 0) or 0) or 0)
\* for an info that is an object.
CoverageQty(info, props) ==
    LET fallback == IF Truthy(props.quantity) THEN props.quantity ELSE Num(0)
        raw == IF info.f.ConsumedQuantity # None THEN info.f.ConsumedQuantity ELSE fallback
    IN  ToFloat(IF Truthy(raw) THEN raw ELSE Num(0))

\* cost = float(props.get('costInBillingCurrency', 0) or 0)
CoverageCost(props) ==
    IF Truthy(props.costInBillingCurrency) THEN props.costInBillingCurrency.v ELSE 0

\* payg_known = isinstance(payg_price, (int, float)) and payg_price > 0
PaygKnown(props) == IsNum(props.payGPrice) /\ props.payGPrice.v > 0

\* VmAccumulate that adds the PAYG cost of reserved hours to the uncovered
\* cost as well.
VmAccumulate_UncoveredAlways(bucket, qty, cost, has_reservation, payg_known, unit_payg) ==
    [total_hours |-> bucket.total_hours + qty,
     total_cost |-> bucket.total_cost + cost,
     reserved_hours |-> bucket.reserved_hours + (IF has_reservation THEN qty ELSE 0),
     reserved_cost |-> bucket.reserved_cost + (IF has_reservation THEN cost ELSE 0),
     payg_equiv |-> bucket.payg_equiv + (IF payg_known THEN unit_payg * qty ELSE 0),
     payg_known_hours |-> bucket.payg_known_hours + (IF payg_known THEN qty ELSE 0),
     uncovered_payg_cost |->
         bucket.uncovered_payg_cost + (IF payg_known THEN unit_payg * qty ELSE 0)]

\* VmAccumulate that adds to payg_equiv only for reservation-linked hours.
VmAccumulate_PaygEquivWhenReserved(bucket, qty, cost, has_reservation, payg_known, unit_payg) ==
    [total_hours |-> bucket.total_hours + qty,
     total_cost |-> bucket.total_cost + cost,
     reserved_hours |-> bucket.reserved_hours + (IF has_reservation THEN qty ELSE 0),
     reserved_cost |-> bucket.reserved_cost + (IF has_reservation THEN cost ELSE 0),
     payg_equiv |->
         bucket.payg_equiv + (IF payg_known /\ has_reservation THEN unit_payg * qty ELSE 0),
     payg_known_hours |-> bucket.payg_known_hours + (IF payg_known THEN qty ELSE 0),
     uncovered_payg_cost |->
         bucket.uncovered_payg_cost
           + (IF payg_known /\ ~has_reservation THEN unit_payg * qty ELSE 0)]

\* "Update per-VM bucket"
VmAccumulate(bucket, qty, cost, has_reservation, payg_known, unit_payg) ==
    [total_hours |-> bucket.total_hours + qty,
     total_cost |-> bucket.total_cost + cost,
     reserved_hours |-> bucket.reserved_hours + (IF has_reservation THEN qty ELSE 0),
     reserved_cost |-> bucket.reserved_cost + (IF has_reservation THEN cost ELSE 0),
     payg_equiv |-> bucket.payg_equiv + (IF payg_known THEN unit_payg * qty ELSE 0),
     payg_known_hours |-> bucket.payg_known_hours + (IF payg_known THEN qty ELSE 0),
     uncovered_payg_cost |->
         bucket.uncovered_payg_cost
           + (IF payg_known /\ ~has_reservation THEN unit_payg * qty ELSE 0)]

\* GrandAccumulate that leaves the cost of reserved hours out.
GrandAccumulate_NoReservedCost(bucket, qty, cost, has_reservation, payg_known, unit_payg) ==
    [total_hours |-> bucket.total_hours + qty,
     total_cost |-> bucket.total_cost + cost,
     reserved_hours |-> bucket.reserved_hours + (IF has_reservation THEN qty ELSE 0),
     reserved_cost |-> bucket.reserved_cost,
     payg_equiv |-> bucket.payg_equiv + (IF payg_known THEN unit_payg * qty ELSE 0),
     payg_known_hours |-> bucket.payg_known_hours + (IF payg_known THEN qty ELSE 0),
     uncovered_payg_cost |->
         bucket.uncovered_payg_cost
           + (IF payg_known /\ ~has_reservation THEN unit_payg * qty ELSE 0)]

\* "Update grand totals"
GrandAccumulate(bucket, qty, cost, has_reservation, payg_known, unit_payg) ==
    [total_hours |-> bucket.total_hours + qty,
     total_cost |-> bucket.total_cost + cost,
     reserved_hours |-> bucket.reserved_hours + (IF has_reservation THEN qty ELSE 0),
     reserved_cost |-> bucket.reserved_cost + (IF has_reservation THEN cost ELSE 0),
     payg_equiv |-> bucket.payg_equiv + (IF payg_known THEN unit_payg * qty ELSE 0),
     payg_known_hours |-> bucket.payg_known_hours + (IF payg_known THEN qty ELSE 0),
     uncovered_payg_cost |->
         bucket.uncovered_payg_cost
           + (IF payg_known /\ ~has_reservation THEN unit_payg * qty ELSE 0)]

\* The body of the loop of analyze_vm_coverage for one record: the per-VM
\* buckets and the grand totals after it.  raised: info is not an object, so
\* info.get raises AttributeError, or float() raises ValueError; nothing
\* catches either.
CoverageBody(vm, grand, props) ==
    LET same == [vm |-> vm, grand |-> grand, raised |-> FALSE]
        name0 == Get(props, "instanceName", Str(<<>>))
        instance_name == IF Truthy(name0) THEN name0.v ELSE s_unknown_vm
        vm_name == vm_short_name(instance_name)
        info == CoverageInfo(props)
        qty == CoverageQty(info, props)
        has_reservation == info.f.ReservationOrderId # None
        cost == CoverageCost(props)
        payg_known == PaygKnown(props)
        unit_payg == IF payg_known THEN props.payGPrice.v ELSE 0
        bucket == IF vm_name \in DOMAIN vm THEN vm[vm_name] ELSE NewBucket
    IN  IF ~is_compute(props) THEN same
        ELSE IF info.k # "object" THEN [same EXCEPT !.raised = TRUE]
        ELSE IF qty = None THEN [same EXCEPT !.raised = TRUE]
        ELSE [vm |-> DictPut(vm, vm_name,
                             VmAccumulate(bucket, qty.v, cost, has_reservation,
                                          payg_known, unit_payg)),
              grand |-> GrandAccumulate(grand, qty.v, cost, has_reservation,
                                        payg_known, unit_payg),
              raised |-> FALSE]

(* -------------------------- report: coverage --------------------------- *)

Max0(x) == IF x > 0 THEN x ELSE 0

\* pct = (res_h / total_h * 100.0) if total_h > 0 else 0.0
CoveragePct(res_h, total_h) == IF total_h > 0 THEN Pct(res_h, total_h) ELSE Frac(0, 1)

\* Savings without the clamp max(0.0, ...).
Savings_NoClamp(st) ==
    IF st.payg_known_hours > 0
    THEN [payg |-> Num(st.payg_equiv), savings |-> Num(st.payg_equiv - st.total_cost)]
    ELSE [payg |-> Str(s_NA), savings |-> Str(s_NA)]

\* Est.PAYG$ and Savings$ of one bucket: numbers when payGPrice was known
\* for some hours, "N/A" otherwise.
Savings(st) ==
    IF st.payg_known_hours > 0
    THEN [payg |-> Num(st.payg_equiv), savings |-> Num(Max0(st.payg_equiv - st.total_cost))]
    ELSE [payg |-> Str(s_NA), savings |-> Str(s_NA)]

\* One row of the per-VM table.
VmRow(st) ==
    [total_hours |-> st.total_hours, reserved_hours |-> st.reserved_hours,
     pct |-> CoveragePct(st.reserved_hours, st.total_hours),
     actual |-> st.total_cost,
     payg |-> Savings(st).payg, savings |-> Savings(st).savings]

\* Discount assumptions of the bracketed estimate, as the percentage of
\* list price that is paid: 0.72 (28% discount) and 0.40 (60% discount).
ConservativePaid == 72
AggressivePaid == 40

\* The "ESTIMATED TOTAL SAVINGS" block: None when it is not printed.
EstimatedSavings(total_visible_cost, grand) ==
    IF total_visible_cost > 0
    THEN [min_payg_estimate |-> Frac(total_visible_cost * 100, ConservativePaid),
          max_payg_estimate |-> Frac(total_visible_cost * 100, AggressivePaid),
          min_savings |-> Frac(total_visible_cost * (100 - ConservativePaid), ConservativePaid),
          max_savings |-> Frac(total_visible_cost * (100 - AggressivePaid), AggressivePaid),
          no_payg_note |-> grand.payg_known_hours = 0]
    ELSE None

\* The "CALCULATED SAVINGS" block: None when it is not printed.
CalculatedSavings(grand) ==
    IF grand.payg_known_hours > 0
    THEN [total_payg_equiv |-> grand.payg_equiv,
          total_savings |-> Max0(grand.payg_equiv - grand.total_cost)]
    ELSE None

\* The coverage part of the report: the per-VM table, the overall coverage
\* and the two savings blocks.
CoverageSection(vm, grand, total_visible_cost) ==
    [rows |-> [n \in DOMAIN vm |-> VmRow(vm[n])],
     coverage_pct |-> CoveragePct(grand.reserved_hours, grand.total_hours),
     uncovered_hours |-> Max0(grand.total_hours - grand.reserved_hours),
     actual |-> grand.total_cost,
     calculated |-> CalculatedSavings(grand),
     estimated |-> EstimatedSavings(total_visible_cost, grand)]

(* ------------------------- fetch_usage_details ------------------------- *)

\* The most pages the API serves for one query.
MaxPages == 3

\* The API version that has payGPrice, and the one the fetch falls back to.
NewestVersion == "2023-05-01"
FallbackVersion == "2021-10-01"

\* The values of --api-version of the runs.
ApiVersions == {NewestVersion, FallbackVersion, "2022-10-01"}

s_api_version == <<"a", "p", "i", "-", "v", "e", "r", "s", "i", "o", "n">>
s_UnknownError == <<"U", "n", "k", "n", "o", "w", "n", " ", "e", "r", "r", "o", "r">>

\* What a page of the API can hold: records whose quantity is a number or
\* is missing, records whose quantity is a string, numeric or not, and no
\* record at all.
PageKinds == {"numbers", "strings", "empty"}

\* data.get('value', []) of page p of a version: the properties of its
\* records, named after the version, the page and their place in it.  Only
\* the newest version carries payGPrice.
PageValue(version, p, kind) ==
    LET rec(k, quantity) ==
            [name |-> <<version, p, k>>,
             quantity |-> quantity,
             payGPrice |-> IF version = NewestVersion THEN Num(2) ELSE None]
    IN  CASE kind = "numbers" -> <<rec(1, Num(5)), rec(2, None)>>
          [] kind = "strings" -> <<rec(1, Str(<<"7">>)), rec(2, Str(<<"n", "/", "a">>))>>
          [] OTHER -> <<>>

\* data['error'].get('message') of the error documents of the API.
ErrorMessages ==
    { Str(<<"B", "a", "d", " ", "A", "P", "I", "-", "V", "e", "r", "s", "i", "o", "n">>),
      Str(<<"T", "h", "r", "o", "t", "t", "l", "e", "d">>),
      None }

\* What subprocess.run of 'az rest' can give for a URL: a non-zero return
\* code, an output that is not JSON, an error document, or the page with
\* the link to the next one when there is one.
Responses(u, pages) ==
    {[k |-> "failed"], [k |-> "not_json"]}
      \cup {[k |-> "error", message |-> m] : m \in ErrorMessages}
      \cup {[k |-> "page",
             value |-> PageValue(u.version, u.page, pages[u.page]),
             nextLink |-> IF u.page < Len(pages)
                          THEN [version |-> u.version, page |-> u.page + 1]
                          ELSE None]}

\* enhance_pricing_data: every numeric field that is present and converts
\* with float() is replaced by the number; the others are left as they are.
enhance_pricing_data(recs) ==
    LET typed(x) == IF x = None \/ ToFloat(x) = None THEN x ELSE ToFloat(x)
    IN  [i \in 1..Len(recs) |->
            [recs[i] EXCEPT !.quantity = typed(@), !.payGPrice = typed(@)]]

(* ------------------------------ the run -------------------------------- *)

VARIABLES
    from_date,              \* args.from_date: a Date or None
    to_date,                \* args.to_date: a Date or None
    usage_file,             \* the 'value' list of the usage file
    usage_data,             \* usage_data of generate_fixed_report
    skipped,                \* skipped of generate_fixed_report
    pc,                     \* the statement the run is at
    exit_status,            \* "running", "ok", "usage_error" (exit 2), "exception"
    idx,                    \* position of the loop the run is in
    visible_reservations,   \* dict: reservation ID -> purchase record
    all_consumption,        \* dict: reservation ID -> list of consumption_data
    all_reservations_seen,  \* set of reservation IDs
    reservation_analyses,   \* list of analyses, in report order
    total_visible_cost,     \* sum of the cost of the visible reservations reported
    reservation_sections,   \* what the reservation loop printed, per analysis
    optimization,           \* what the optimization analysis printed, per group key
    vm,                     \* dict: VM name -> bucket (analyze_vm_coverage)
    grand,                  \* grand totals (analyze_vm_coverage)
    coverage                \* what the coverage part printed, None before it

\* The state of a run of fetch_usage_details.py.
VARIABLES
    api_version,            \* api_version of the call of fetch_usage_details that runs
    url,                    \* the URL to request next, None when there is no nextLink
    results,                \* results of that call
    page_count,             \* page_count of that call
    depth,                  \* how many calls of fetch_usage_details are below it on the stack
    response,               \* what the last 'az rest' gave
    fetch_status,           \* "idle", "running", "returned", "exit1" (sys.exit(1))
    result,                 \* what fetch_usage_details returned to main, None before
    requested,              \* args.api_version
    server                  \* what each page of the query holds at the API

report_vars ==
    <<from_date, to_date, usage_file, usage_data, skipped, pc, exit_status, idx,
      visible_reservations, all_consumption, all_reservations_seen,
      reservation_analyses, total_visible_cost, reservation_sections,
      optimization, vm, grand, coverage>>

fetch_vars ==
    <<api_version, url, results, page_count, depth, response, fetch_status, result,
      requested, server>>

vars == <<report_vars, fetch_vars>>

(* ------------------------------- inputs -------------------------------- *)

\* The texts the sample records are made of.
Text ==
    [R1 |-> <<"R", "1">>,
     R2 |-> <<"R", "2">>,
     vm1 |-> <<"v", "m", "1">>,
     vm2 |-> <<"v", "m", "2">>,
     virtualMachines |->
         <<"v", "i", "r", "t", "u", "a", "l", "M", "a", "c", "h", "i",
           "n", "e", "s">>,
     D8as_v5 |->
         <<"S", "t", "a", "n", "d", "a", "r", "d", "_", "D", "8", "a",
           "s", "_", "v", "5">>,
     D4s_v3 |->
         <<"S", "t", "a", "n", "d", "a", "r", "d", "_", "D", "4", "s",
           "_", "v", "3">>,
     E4s_v3 |->
         <<"S", "t", "a", "n", "d", "a", "r", "d", "_", "E", "4", "s",
           "_", "v", "3">>,
     t730 |-> <<"7", "3", "0">>,
     eu |-> <<"e", "u">>,
     d0315 |-> <<"2", "0", "2", "5", "-", "0", "3", "-", "1", "5">>,
     dsentinel |-> <<"0", "0", "0", "1", "-", "0", "1", "-", "0", "1">>,
     d0320T |->
         <<"2", "0", "2", "5", "-", "0", "3", "-", "2", "0", "T", "0",
           "0", ":", "0", "0", ":", "0", "0", "Z">>,
     d0312basic |-> <<"2", "0", "2", "5", "0", "3", "1", "2">>,
     dgarbage |-> <<"g", "a", "r", "b", "a", "g", "e">>,
     d0310 |-> <<"2", "0", "2", "5", "-", "0", "3", "-", "1", "0">>,
     VirtualMachines |->
         <<"V", "i", "r", "t", "u", "a", "l", " ", "M", "a", "c", "h",
           "i", "n", "e", "s">>,
     MicrosoftCompute |->
         <<"M", "i", "c", "r", "o", "s", "o", "f", "t", ".", "C", "o",
           "m", "p", "u", "t", "e">>,
     MICROSOFTCOMPUTE |->
         <<"M", "I", "C", "R", "O", "S", "O", "F", "T", ".", "C", "O",
           "M", "P", "U", "T", "E">>,
     t1Hour |-> <<"1", " ", "H", "o", "u", "r">>,
     t10Hours |-> <<"1", "0", " ", "H", "o", "u", "r", "s">>,
     Storage |-> <<"S", "t", "o", "r", "a", "g", "e">>,
     t1GB |-> <<"1", " ", "G", "B">>]

OrderPath(id) == <<"x", "/">> \o s_reservationOrders \o <<"/">> \o id
VmPath(name) == <<"r", "g", "/">> \o Text.virtualMachines \o <<"/">> \o name

\* A reservation purchase record.
PurchaseRecord(id, product, cost) ==
    [NoProps EXCEPT !.instanceName = Str(OrderPath(id)),
                    !.chargeType = Str(s_Purchase),
                    !.product = Str(product),
                    !.costInBillingCurrency = Num(cost),
                    !.meterRegion = Str(Text.eu)]

\* A usage record of a VM with the given additionalInfo.
UsageRecord(name, info, cost) ==
    [NoProps EXCEPT !.instanceName = Str(VmPath(name)),
                    !.chargeType = Str(s_Usage),
                    !.additionalInfo = info,
                    !.costInBillingCurrency = Num(cost),
                    !.quantity = Num(24)]

Linked(id, stype, qty) == JsonObject(InfoFields(Str(id), Str(stype), qty))

\* Records of the reservation side: purchases with and without a size
\* token, consumption with a numeric and with a string ConsumedQuantity,
\* with a service type that has no core count, without ConsumedQuantity,
\* with an additionalInfo that is not JSON, and a purchase record that also
\* carries a reservation link.
ReservationPool ==
    { PurchaseRecord(Text.R1, s_VMInstance \o <<" ">> \o Text.D8as_v5, 100),
      PurchaseRecord(Text.R2, s_VMInstance, 50),
      [PurchaseRecord(Text.R1, s_VMInstance, 70)
          EXCEPT !.additionalInfo = Linked(Text.R1, <<>>, Num(10))],
      UsageRecord(Text.vm1, Linked(Text.R1, Text.D8as_v5, Str(Text.t730)), 0),
      UsageRecord(Text.vm1, Linked(Text.R1, Text.D8as_v5, Num(365)), 3),
      UsageRecord(Text.vm2, Linked(Text.R2, Text.E4s_v3, Num(100)), 2),
      UsageRecord(Text.vm2, Linked(Text.R2, Text.D4s_v3, None), 1),
      UsageRecord(Text.vm1, JsonInvalid, 5) }

Dated(name) == [NoProps EXCEPT !.instanceName = Str(VmPath(name)),
                               !.chargeType = Str(s_Usage)]

\* Records of the date side: a plain date with a sentinel service period, a
\* sentinel alone, a sentinel before a timestamp in a fallback field, the
\* basic ISO format, no date field at all, and an unparseable date before
\* a good usageStart.
DatedPool ==
    { [Dated(Text.vm1) EXCEPT !.date = Str(Text.d0315),
                           !.servicePeriodStartDate = Str(Text.dsentinel)],
      [Dated(Text.vm2) EXCEPT !.date = Str(Text.dsentinel)],
      [Dated(Text.vm1) EXCEPT !.servicePeriodStartDate = Str(Text.dsentinel),
                           !.usageEnd = Str(Text.d0320T)],
      [Dated(Text.vm2) EXCEPT !.usageStart = Str(Text.d0312basic)],
      Dated(Text.vm1),
      [Dated(Text.vm2) EXCEPT !.date = Str(Text.dgarbage), !.usageStart = Str(Text.d0310)] }

FromDates == {None, Date(2025, 3, 12), Date(2025, 3, 21)}
ToDates == {None, Date(2025, 3, 15)}

\* A compute-hour record of a VM.
ComputeRecord(name, quantity, cost, payg, info) ==
    [NoProps EXCEPT !.instanceName = Str(VmPath(name)),
                    !.chargeType = Str(s_Usage),
                    !.meterCategory = Str(Text.VirtualMachines),
                    !.consumedService = Str(Text.MicrosoftCompute),
                    !.unitOfMeasure = Str(Text.t1Hour),
                    !.quantity = Num(quantity),
                    !.costInBillingCurrency = Num(cost),
                    !.payGPrice = payg,
                    !.additionalInfo = info]

\* Records of the coverage side: PAYG-priced hours with and without a
\* reservation link, hours that cost more than their PAYG price, hours
\* without a PAYG price and with blanks around the meter category, a
\* storage record, a record whose fields differ in case and whose
\* ConsumedQuantity is a string that differs from quantity,
\* and records whose additionalInfo is not JSON or is a JSON list.
ComputePool ==
    { ComputeRecord(Text.vm1, 100, 15, Num(20), None),
      ComputeRecord(Text.vm1, 100, 0, Num(20), Linked(Text.R1, Text.D8as_v5, Num(100))),
      ComputeRecord(Text.vm2, 10, 50, Num(2), None),
      [ComputeRecord(Text.vm2, 5, 5, None, None)
          EXCEPT !.meterCategory = Str(<<" ">> \o Text.VirtualMachines \o <<" ">>)],
      [ComputeRecord(Text.vm1, 8, 4, Num(3), None)
          EXCEPT !.meterCategory = Str(Text.Storage), !.unitOfMeasure = Str(Text.t1GB)],
      [ComputeRecord(Text.vm2, 9, 1, Num(1), Linked(Text.R1, Text.D4s_v3, Str(<<"7">>)))
          EXCEPT !.consumedService = Str(Text.MICROSOFTCOMPUTE),
                 !.unitOfMeasure = Str(Text.t10Hours)],
      ComputeRecord(Text.vm1, 6, 9, Num(1), JsonInvalid),
      ComputeRecord(Text.vm2, 4, 2, Num(5), JsonList({s_ReservationOrderId})) }

\* Records that carry both sides: the purchase of Scenario A, a purchase
\* whose instanceName ends after "reservationOrders/", a purchase whose path
\* goes on after the ID, and PAYG-priced and unpriced compute hours linked
\* to the two reservations with service types of 8, 4 and no cores.
FullPool ==
    { PurchaseRecord(Text.R1, s_VMInstance \o <<" ">> \o Text.D8as_v5, 100),
      [PurchaseRecord(Text.R1, Text.D4s_v3, 30)
          EXCEPT !.instanceName = Str(<<"x", "/">> \o s_reservationOrders \o <<"/">>)],
      [PurchaseRecord(Text.R2, Text.D4s_v3, 40)
          EXCEPT !.instanceName = Str(OrderPath(Text.R2) \o <<"/", "r", "7">>)],
      ComputeRecord(Text.vm1, 365, 0, Num(20), Linked(Text.R1, Text.D8as_v5, Num(365))),
      ComputeRecord(Text.vm2, 10, 0, None, Linked(Text.R2, Text.D4s_v3, Num(10))),
      ComputeRecord(Text.vm1, 10, 0, None, Linked(Text.R2, Text.D8as_v5, Num(10))),
      UsageRecord(Text.vm2, Linked(Text.R2, Text.E4s_v3, Num(100)), 2) }

\* The most purchases and the most consumption records of a file of
\* GroupFiles.
MaxPurchases == 2
MaxEvents == 2

s_D10s_v3 ==
    <<"S", "t", "a", "n", "d", "a", "r", "d", "_", "D", "1", "0", "s", "_", "v", "3">>
s_D16s_v3 ==
    <<"S", "t", "a", "n", "d", "a", "r", "d", "_", "D", "1", "6", "s", "_", "v", "3">>
s_D32s_v3 ==
    <<"S", "t", "a", "n", "d", "a", "r", "d", "_", "D", "3", "2", "s", "_", "v", "3">>

\* Purchases of two reservations of the same 10-core size, in one region
\* and, for the second one, in another region as well.
GroupPurchases ==
    { PurchaseRecord(Text.R1, s_VMInstance \o <<" ">> \o s_D10s_v3, 100),
      PurchaseRecord(Text.R2, s_VMInstance \o <<" ">> \o s_D10s_v3, 50),
      [PurchaseRecord(Text.R2, s_VMInstance \o <<" ">> \o s_D10s_v3, 50)
          EXCEPT !.meterRegion = Str(<<"u", "s">>)] }

\* Consumption of the two reservations by VMs of 8, 0, 16 and 32 cores.
GroupEvents ==
    { UsageRecord(Text.vm1, Linked(Text.R1, Text.D8as_v5, Num(10)), 1),
      UsageRecord(Text.vm1, Linked(Text.R1, Text.E4s_v3, Num(10)), 1),
      UsageRecord(Text.vm2, Linked(Text.R2, Text.D8as_v5, Num(10)), 1),
      UsageRecord(Text.vm2, Linked(Text.R2, s_D16s_v3, Num(10)), 1),
      UsageRecord(Text.vm2, Linked(Text.R2, s_D32s_v3, Num(10)), 1) }

s_D8s_v3 ==
    <<"S", "t", "a", "n", "d", "a", "r", "d", "_", "D", "8", "s", "_", "v", "3">>

\* Consumption of two reservations by VMs of two sizes of 8 cores and of a
\* size without a core count, and the purchase of the second reservation.
TiePool ==
    { UsageRecord(Text.vm1, Linked(Text.R1, Text.D8as_v5, Num(10)), 1),
      UsageRecord(Text.vm1, Linked(Text.R2, Text.D8as_v5, Num(10)), 1),
      UsageRecord(Text.vm2, Linked(Text.R2, s_D8s_v3, Num(10)), 1),
      UsageRecord(Text.vm2, Linked(Text.R2, Text.E4s_v3, Num(10)), 1),
      PurchaseRecord(Text.R2, s_VMInstance \o <<" ">> \o Text.D8as_v5, 100) }

\* The lists of at most n records of a pool.
ListsOf(pool, n) == UNION {[1..k -> pool] : k \in 0..n}

\* The state at the start of a run with the given arguments and file.
Start(file, from, to) ==
    /\ usage_file = file
    /\ from_date = from
    /\ to_date = to
    /\ usage_data = <<>>
    /\ skipped = 0
    /\ pc = "main"
    /\ exit_status = "running"
    /\ idx = 1
    /\ visible_reservations = EmptyDict
    /\ all_consumption = EmptyDict
    /\ all_reservations_seen = {}
    /\ reservation_analyses = <<>>
    /\ total_visible_cost = 0
    /\ reservation_sections = <<>>
    /\ optimization = EmptyDict
    /\ vm = EmptyDict
    /\ grand = NewBucket
    /\ coverage = None

\* No run of fetch_usage_details.py.
FetchIdle ==
    /\ api_version = None
    /\ url = None
    /\ results = <<>>
    /\ page_count = 0
    /\ depth = 0
    /\ response = None
    /\ fetch_status = "idle"
    /\ result = None
    /\ requested = None
    /\ server = <<>>

Init == \E file \in ListsOf(ReservationPool, MaxRecords) :
    Start(file, None, None) /\ FetchIdle

InitDated ==
    \E file \in ListsOf(DatedPool, MaxRecords), from \in FromDates, to \in ToDates :
        Start(file, from, to) /\ FetchIdle

InitCompute == \E file \in ListsOf(ComputePool, MaxRecords) :
    Start(file, None, None) /\ FetchIdle

InitFull == \E file \in ListsOf(FullPool, MaxRecords) :
    Start(file, None, None) /\ FetchIdle

\* Files of purchases followed by the consumption of the reservations.
GroupFiles ==
    {p \o e : p \in ListsOf(GroupPurchases, MaxPurchases),
              e \in ListsOf(GroupEvents, MaxEvents)}

InitGroups == \E file \in GroupFiles :
    Start(file, None, None) /\ FetchIdle

InitTies == \E file \in ListsOf(TiePool, MaxRecords) :
    Start(file, None, None) /\ FetchIdle

\* main of fetch_usage_details.py calls fetch_usage_details with
\* args.api_version; the query has one to MaxPages pages at the API.
InitFetch ==
    /\ Start(<<>>, None, None)
    /\ \E version \in ApiVersions, n \in 1..MaxPages :
          \E pages \in [1..n -> PageKinds] :
             /\ api_version = version
             /\ requested = version
             /\ server = pages
             /\ url = [version |-> version, page |-> 1]
    /\ results = <<>>
    /\ page_count = 0
    /\ depth = 0
    /\ response = None
    /\ fetch_status = "running"
    /\ result = None

(* ------------------------------- actions ------------------------------- *)

\* An uncaught exception ends the run.
Crash ==
    /\ pc' = "done"
    /\ exit_status' = "exception"

\* __main__ without the range check.
Main_NoRangeCheck ==
    /\ pc = "main"
    /\ pc' = "filter"
    /\ UNCHANGED fetch_vars
    /\ UNCHANGED <<from_date, to_date, usage_file, usage_data, skipped, idx, exit_status,
                   visible_reservations, all_consumption, all_reservations_seen,
                   reservation_analyses, total_visible_cost, reservation_sections,
                   optimization, vm, grand, coverage>>

\* __main__: the range check of the two parsed dates; a reversed range is a
\* usage error (sys.exit(2)) before generate_fixed_report is called.
Main ==
    /\ pc = "main"
    /\ IF from_date # None /\ to_date # None /\ DateLess(to_date, from_date)
       THEN pc' = "done" /\ exit_status' = "usage_error"
       ELSE pc' = "filter" /\ exit_status' = exit_status
    /\ UNCHANGED fetch_vars
    /\ UNCHANGED <<from_date, to_date, usage_file, usage_data, skipped, idx,
                   visible_reservations, all_consumption, all_reservations_seen,
                   reservation_analyses, total_visible_cost, reservation_sections,
                   optimization, vm, grand, coverage>>

\* generate_fixed_report: load_usage_data and filter_usage_by_date.
LoadAndFilter ==
    /\ pc = "filter"
    /\ LET r == filter_usage_by_date(usage_file, from_date, to_date)
       IN  usage_data' = r.filtered /\ skipped' = r.skipped
    /\ pc' = "visible"
    /\ idx' = 1
    /\ UNCHANGED fetch_vars
    /\ UNCHANGED <<from_date, to_date, usage_file, exit_status,
                   visible_reservations, all_consumption, all_reservations_seen,
                   reservation_analyses, total_visible_cost, reservation_sections,
                   optimization, vm, grand, coverage>>

\* analyze_reservations_fixed, first loop: one record, or the end of the loop.
VisibleLoop ==
    /\ pc = "visible"
    /\ IF idx <= Len(usage_data)
       THEN /\ visible_reservations' = VisibleBody(visible_reservations, usage_data[idx])
            /\ idx' = idx + 1
            /\ pc' = pc
       ELSE /\ visible_reservations' = visible_reservations
            /\ idx' = 1
            /\ pc' = "consumption"
    /\ UNCHANGED fetch_vars
    /\ UNCHANGED <<from_date, to_date, usage_file, usage_data, skipped, exit_status,
                   all_consumption, all_reservations_seen,
                   reservation_analyses, total_visible_cost, reservation_sections,
                   optimization, vm, grand, coverage>>

\* analyze_reservations_fixed, second loop: one record, or the end of the
\* loop and the return to generate_fixed_report.
ConsumptionLoop ==
    /\ pc = "consumption"
    /\ IF idx <= Len(usage_data)
       THEN LET r == ConsumptionBody(all_consumption, all_reservations_seen,
                                     usage_data[idx])
            IN  IF r.raised
                THEN /\ Crash
                     /\ UNCHANGED <<all_consumption, all_reservations_seen, idx>>
                ELSE /\ all_consumption' = r.all_consumption
                     /\ all_reservations_seen' = r.all_reservations_seen
                     /\ idx' = idx + 1
                     /\ pc' = pc
                     /\ exit_status' = exit_status
       ELSE /\ idx' = 1
            /\ pc' = "reservations"
            /\ UNCHANGED <<all_consumption, all_reservations_seen, exit_status>>
    /\ UNCHANGED fetch_vars
    /\ UNCHANGED <<from_date, to_date, usage_file, usage_data, skipped,
                   visible_reservations,
                   reservation_analyses, total_visible_cost, reservation_sections,
                   optimization, vm, grand, coverage>>

\* ReservationLoop whose analysis takes the purchase record out of
\* visible_reservations (pop in place of get).
ReservationLoop_PopsVisible ==
    /\ pc = "reservations"
    /\ IF idx <= Cardinality(all_reservations_seen)
       THEN LET reservation_id == Sorted(all_reservations_seen)[idx]
                consumption_records == all_consumption[reservation_id]
            IN  \E order \in OrdersOf(ServiceTypesOf(consumption_records)) :
                  LET analysis ==
                          analyze_reservation_utilization(
                              reservation_id, consumption_records,
                              visible_reservations, order)
                      section == ReservationSection(analysis)
                  IN  /\ reservation_analyses' = Append(reservation_analyses, analysis)
                      /\ total_visible_cost' = total_visible_cost + VisibleCostOf(analysis)
                      /\ visible_reservations' =
                             [k \in DOMAIN visible_reservations \ {reservation_id} |->
                                 visible_reservations[k]]
                      /\ IF SectionRaised(section)
                         THEN /\ Crash
                              /\ UNCHANGED <<reservation_sections, idx>>
                         ELSE /\ reservation_sections' =
                                     Append(reservation_sections, section)
                              /\ idx' = idx + 1
                              /\ pc' = pc
                              /\ exit_status' = exit_status
       ELSE /\ idx' = 1
            /\ pc' = "optimization"
            /\ UNCHANGED <<reservation_analyses, total_visible_cost,
                           reservation_sections, exit_status, visible_reservations>>
    /\ UNCHANGED fetch_vars
    /\ UNCHANGED <<from_date, to_date, usage_file, usage_data, skipped,
                   all_consumption, all_reservations_seen,
                   optimization, vm, grand, coverage>>

\* generate_fixed_report, the loop over sorted(all_reservations_seen): the
\* analysis and the printed section of one reservation, or the end of the
\* loop.
ReservationLoop ==
    /\ pc = "reservations"
    /\ IF idx <= Cardinality(all_reservations_seen)
       THEN LET reservation_id == Sorted(all_reservations_seen)[idx]
                consumption_records == all_consumption[reservation_id]
            IN  \E order \in OrdersOf(ServiceTypesOf(consumption_records)) :
                  LET analysis ==
                          analyze_reservation_utilization(
                              reservation_id, consumption_records,
                              visible_reservations, order)
                      section == ReservationSection(analysis)
                  IN  /\ reservation_analyses' = Append(reservation_analyses, analysis)
                      /\ total_visible_cost' = total_visible_cost + VisibleCostOf(analysis)
                      /\ IF SectionRaised(section)
                         THEN /\ Crash
                              /\ UNCHANGED <<reservation_sections, idx>>
                         ELSE /\ reservation_sections' =
                                     Append(reservation_sections, section)
                              /\ idx' = idx + 1
                              /\ pc' = pc
                              /\ exit_status' = exit_status
       ELSE /\ idx' = 1
            /\ pc' = "optimization"
            /\ UNCHANGED <<reservation_analyses, total_visible_cost,
                           reservation_sections, exit_status>>
    /\ UNCHANGED fetch_vars
    /\ UNCHANGED <<from_date, to_date, usage_file, usage_data, skipped,
                   visible_reservations, all_consumption, all_reservations_seen,
                   optimization, vm, grand, coverage>>

\* generate_fixed_report, the optimization analysis.
Optimization ==
    /\ pc = "optimization"
    /\ LET groups == OptimizationAnalysis(reservation_analyses)
       IN  IF \E k \in DOMAIN groups : groups[k].combined = ZeroDivisionError
           THEN Crash /\ UNCHANGED optimization
           ELSE /\ optimization' = groups
                /\ pc' = "coverage"
                /\ exit_status' = exit_status
    /\ UNCHANGED fetch_vars
    /\ UNCHANGED <<from_date, to_date, usage_file, usage_data, skipped, idx,
                   visible_reservations, all_consumption, all_reservations_seen,
                   reservation_analyses, total_visible_cost, reservation_sections,
                   vm, grand, coverage>>

\* analyze_vm_coverage: one record, or the end of the loop and the return to
\* generate_fixed_report.
CoverageLoop ==
    /\ pc = "coverage"
    /\ IF idx <= Len(usage_data)
       THEN LET r == CoverageBody(vm, grand, usage_data[idx])
            IN  IF r.raised
                THEN Crash /\ UNCHANGED <<vm, grand, idx>>
                ELSE /\ vm' = r.vm
                     /\ grand' = r.grand
                     /\ idx' = idx + 1
                     /\ pc' = pc
                     /\ exit_status' = exit_status
       ELSE /\ idx' = 1
            /\ pc' = "summary"
            /\ UNCHANGED <<vm, grand, exit_status>>
    /\ UNCHANGED fetch_vars
    /\ UNCHANGED <<from_date, to_date, usage_file, usage_data, skipped,
                   visible_reservations, all_consumption, all_reservations_seen,
                   reservation_analyses, total_visible_cost, reservation_sections,
                   optimization, coverage>>

\* generate_fixed_report, the coverage tables, the savings blocks and the
\* final summary.
Summary ==
    /\ pc = "summary"
    /\ coverage' = CoverageSection(vm, grand, total_visible_cost)
    /\ pc' = "done"
    /\ exit_status' = "ok"
    /\ UNCHANGED fetch_vars
    /\ UNCHANGED <<from_date, to_date, usage_file, usage_data, skipped, idx,
                   visible_reservations, all_consumption, all_reservations_seen,
                   reservation_analyses, total_visible_cost, reservation_sections,
                   optimization, vm, grand>>

Next ==
    \/ Main
    \/ LoadAndFilter
    \/ VisibleLoop
    \/ ConsumptionLoop
    \/ ReservationLoop
    \/ Optimization
    \/ CoverageLoop
    \/ Summary

\* Runs over files of reservation records.
Spec == Init /\ [][Next]_vars

\* Runs over files of dated records, with a date window.
SpecDated == InitDated /\ [][Next]_vars

\* Runs over files of compute records.
SpecCompute == InitCompute /\ [][Next]_vars

\* Runs over files of purchases and of the compute hours that consume them.
SpecFull == InitFull /\ [][Next]_vars

\* Runs over files of reservations of one size and of their consumption.
SpecGroups == InitGroups /\ [][Next]_vars

\* Runs over files of consumption whose service types tie in core count.
SpecTies == InitTies /\ [][Next]_vars

\* Fallback that keeps the records accumulated so far.
Fallback_KeepsRecords ==
    /\ api_version' = FallbackVersion
    /\ url' = [version |-> FallbackVersion, page |-> 1]
    /\ results' = results
    /\ page_count' = 0
    /\ depth' = depth + 1
    /\ UNCHANGED <<fetch_status, result>>

\* return fetch_usage_details(..., "2021-10-01", ...): the new call starts
\* with its first URL and an empty results, and what it returns is returned.
Fallback ==
    /\ api_version' = FallbackVersion
    /\ url' = [version |-> FallbackVersion, page |-> 1]
    /\ results' = <<>>
    /\ page_count' = 0
    /\ depth' = depth + 1
    /\ UNCHANGED <<fetch_status, result>>

\* sys.exit(1)
Exit1 ==
    /\ fetch_status' = "exit1"
    /\ page_count' = page_count + 1
    /\ UNCHANGED <<api_version, url, results, depth, result>>

\* One turn of the loop 'while url' of fetch_usage_details.
FetchPage ==
    /\ fetch_status = "running"
    /\ url # None
    /\ \E r \in Responses(url, server) :
          /\ response' = r
          /\ CASE r.k = "failed" ->
                    IF api_version = NewestVersion THEN Fallback ELSE Exit1
               [] r.k = "not_json" -> Exit1
               [] r.k = "error" ->
                    LET error_msg == IF r.message = None THEN s_UnknownError
                                     ELSE r.message.v
                    IN  IF /\ Contains(Lower(error_msg), s_api_version)
                           /\ api_version = NewestVersion
                        THEN Fallback ELSE Exit1
               [] OTHER ->
                    /\ results' = results \o r.value
                    /\ url' = r.nextLink
                    /\ page_count' = page_count + 1
                    /\ UNCHANGED <<api_version, depth, fetch_status, result>>
    /\ UNCHANGED <<requested, server>>
    /\ UNCHANGED report_vars

\* The end of the loop: enhance_pricing_data types the records of results
\* in place and the call returns {"value": results}.
FetchReturn ==
    /\ fetch_status = "running"
    /\ url = None
    /\ results' = enhance_pricing_data(results)
    /\ result' = [value |-> enhance_pricing_data(results)]
    /\ fetch_status' = "returned"
    /\ UNCHANGED <<api_version, url, page_count, depth, response, requested, server>>
    /\ UNCHANGED report_vars

FetchNext ==
    \/ FetchPage
    \/ FetchReturn

\* Runs of fetch_usage_details.py.
SpecFetch == InitFetch /\ [][FetchNext]_vars

TypeOK ==
    /\ pc \in {"main", "filter", "visible", "consumption", "reservations",
               "optimization", "coverage", "summary", "done"}
    /\ exit_status \in {"running", "ok", "usage_error", "exception"}
    /\ idx \in 1..(MaxRecords + 2)
    /\ Len(usage_data) <= Len(usage_file)

(* ------------------------------ properties ----------------------------- *)

\* The correlator has returned: the run is past analyze_reservations_fixed.
Correlated == pc \in {"reservations", "optimization", "coverage", "summary"}
                \/ (pc = "done" /\ exit_status = "ok")

\* The reservation loop of the report has ended.
Reported == pc \in {"optimization", "coverage", "summary"}
              \/ (pc = "done" /\ exit_status = "ok")

\* The filter has just returned; usage_data and skipped do not change after.
Filtered == pc = "visible" /\ idx = 1

\* The record carries a JSON object with a ReservationOrderId.
IsLinked(props) ==
    /\ props.additionalInfo # None
    /\ props.additionalInfo.t = "json"
    /\ props.additionalInfo.k = "object"
    /\ props.additionalInfo.f.ReservationOrderId # None

LinkedId(props) == props.additionalInfo.f.ReservationOrderId.v

\* The IDs that consumption records of the data refer to, and the IDs of
\* its Purchase records.
ReferencedIds(data) == {LinkedId(data[j]) : j \in {i \in 1..Len(data) : IsLinked(data[i])}}

PurchasedIds(data) ==
    {extract_reservation_id(data[j].instanceName.v).v :
        j \in {i \in 1..Len(data) :
                 /\ data[i].chargeType = Str(s_Purchase)
                 /\ data[i].instanceName # None
                 /\ extract_reservation_id(data[i].instanceName.v) # None}}

\* C1: for any input, all_reservations_seen returned by
\* analyze_reservations_fixed is the union of the keys of
\* visible_reservations and of the consumption map; a reservation with a
\* visible Purchase record is in it also when nothing consumes it.
C1_SeenIsUnionOfKeys ==
    Correlated =>
        all_reservations_seen = DOMAIN visible_reservations \cup DOMAIN all_consumption

\* C2: a record whose additionalInfo is a non-empty string that is not valid
\* JSON raises nothing in analyze_reservations_fixed, adds nothing to the
\* consumption map or to all_reservations_seen, and the loop goes on with
\* the next record.
C2_MalformedInfoIsPlainUsage ==
    [][(/\ pc = "consumption"
        /\ idx <= Len(usage_data)
        /\ usage_data[idx].additionalInfo = JsonInvalid)
       => (/\ all_consumption' = all_consumption
           /\ all_reservations_seen' = all_reservations_seen
           /\ exit_status' = "running"
           /\ pc' = "consumption"
           /\ idx' = idx + 1)]_vars

\* A malformed record was passed and a later record was added to the map.
C2_Witness ==
    /\ pc = "reservations"
    /\ \E k, j \in 1..Len(usage_data) :
          /\ k < j
          /\ usage_data[k].additionalInfo = JsonInvalid
          /\ IsLinked(usage_data[j])
          /\ LinkedId(usage_data[j]) \in all_reservations_seen
          /\ Len(all_consumption[LinkedId(usage_data[j])]) >= 1

\* The hours a consumption event carries, as a number.
EventHours(rec) == ToFloat(rec.consumed_quantity).v

RECURSIVE HoursOf(_, _)
HoursOf(recs, name) ==
    IF recs = <<>> THEN 0
    ELSE (IF vm_short_name(Head(recs).instance_name) = name
          THEN EventHours(Head(recs)) ELSE 0) + HoursOf(Tail(recs), name)

\* C3: a resource's consumedHours counts the ConsumedQuantity of every one
\* of its events, whether the payload carries it as a number or as a
\* numeric string (the record of Scenario B gives vm1 730 hours and 8
\* cores).
C3_HoursCountEveryEvent ==
    \A i \in 1..Len(reservation_analyses) :
        LET a == reservation_analyses[i]
        IN  \A n \in DOMAIN a.resource_usage :
                a.resource_usage[n].consumed_hours
                    = HoursOf(all_consumption[a.reservation_id], n)

\* The date field is missing, unparseable or carries the sentinel year 0001.
NotProvided(s) == parse_iso_date(s) = None \/ parse_iso_date(s).y = 1

RECURSIVE FirstProvided(_, _)
FirstProvided(props, keys) ==
    IF keys = <<>> THEN None
    ELSE IF ~NotProvided(props[Head(keys)]) THEN parse_iso_date(props[Head(keys)])
    ELSE FirstProvided(props, Tail(keys))

\* The date of a record when a sentinel counts as not provided.
ProvidedDate(props) == FirstProvided(props, DateKeys \o FallbackDateKeys)

\* C4: a date field with the sentinel year 0001 is treated as not provided:
\* extract_record_date moves on to the next candidate field, and under any
\* date filter a record without a provided date is excluded from the kept
\* records and counted in the skipped count.
C4_SentinelIsNotProvided ==
    Filtered =>
        /\ \A i \in 1..Len(usage_file) :
              extract_record_date(usage_file[i]) = ProvidedDate(usage_file[i])
        /\ (from_date # None \/ to_date # None) =>
              /\ \A i \in 1..Len(usage_data) : ProvidedDate(usage_data[i]) # None
              /\ skipped = Cardinality({i \in 1..Len(usage_file) :
                                           ProvidedDate(usage_file[i]) = None})

\* The reservations that only consumption records refer to.
HiddenIds(data) == ReferencedIds(data) \ PurchasedIds(data)

\* C5: a reservation ID that only consumption records refer to is in
\* all_reservations_seen and not in visible_reservations, and the report
\* has an analysis for it with is_visible false and with cost and product
\* marked unknown by a text, never by a number.
C5_HiddenReservationReported ==
    Reported =>
        \A id \in HiddenIds(usage_data) :
            /\ id \in all_reservations_seen
            /\ id \notin DOMAIN visible_reservations
            /\ \E i \in 1..Len(reservation_analyses) :
                  /\ reservation_analyses[i].reservation_id = id
                  /\ ~reservation_analyses[i].is_visible
                  /\ reservation_analyses[i].cost = Str(s_UnknownCost)
                  /\ ~IsNum(reservation_analyses[i].cost)
                  /\ reservation_analyses[i].product = s_Unknown
                  /\ reservation_sections[i].reservation_id = id
                  /\ reservation_sections[i].outside_period_warning
                  /\ reservation_sections[i].cost = Str(s_UnknownCost)

\* A finished report of a file with a hidden reservation next to a visible one.
C5_Witness ==
    /\ pc = "done"
    /\ exit_status = "ok"
    /\ HiddenIds(usage_data) # {}
    /\ DOMAIN visible_reservations # {}

\* C6: when reservedCores is 0 no division by it is performed: the
\* utilization percentage and the per-resource efficiency are not computed,
\* a group whose total reserved cores is 0 gets no combined efficiency, and
\* the run does not fail.
C6_NoDivisionByZeroCores ==
    /\ exit_status # "exception"
    /\ \A i \in 1..Len(reservation_sections) :
          reservation_sections[i].reserved_cores = 0 =>
              /\ reservation_sections[i].utilization_pct = None
              /\ \A n \in DOMAIN reservation_sections[i].resources :
                    reservation_sections[i].resources[n].warning = None
    /\ \A k \in DOMAIN optimization :
          optimization[k].total_reserved_cores = 0 => optimization[k].combined = None

\* A finished report with a reservation of 0 reserved cores that has
\* consuming resources, and with a group whose reserved cores total 0.
C6_Witness ==
    /\ pc = "done"
    /\ exit_status = "ok"
    /\ \E i \in 1..Len(reservation_sections) :
          /\ reservation_sections[i].reserved_cores = 0
          /\ reservation_sections[i].total_cores_used > 0
    /\ \E k \in DOMAIN optimization : optimization[k].total_reserved_cores = 0

\* C7: whenever PAYG-known hours are positive, the savings reported for the
\* aggregate and for each VM are max(0, paygEquivalentCost - actual cost):
\* the difference when it is positive, 0 when the actual cost exceeds the
\* PAYG-equivalent cost, never a negative number.
C7_SavingsNeverNegative ==
    coverage # None =>
        /\ grand.payg_known_hours > 0 =>
              /\ coverage.calculated # None
              /\ coverage.calculated.total_savings >= 0
              /\ coverage.calculated.total_savings >= grand.payg_equiv - grand.total_cost
              /\ coverage.calculated.total_savings
                    \in {0, grand.payg_equiv - grand.total_cost}
        /\ \A n \in DOMAIN vm :
              vm[n].payg_known_hours > 0 =>
                  /\ IsNum(coverage.rows[n].savings)
                  /\ coverage.rows[n].savings.v >= 0
                  /\ coverage.rows[n].savings.v >= vm[n].payg_equiv - vm[n].total_cost
                  /\ coverage.rows[n].savings.v
                        \in {0, vm[n].payg_equiv - vm[n].total_cost}

\* A finished report in which a VM with PAYG-priced hours cost more than its
\* PAYG equivalent, and so did the aggregate.
C7_Witness ==
    /\ pc = "done"
    /\ coverage # None
    /\ grand.payg_known_hours > 0
    /\ grand.total_cost > grand.payg_equiv
    /\ \E n \in DOMAIN vm :
          vm[n].payg_known_hours > 0 /\ vm[n].total_cost > vm[n].payg_equiv

\* C8: without a from and a to bound filter_usage_by_date returns the input
\* unchanged, records without a resolvable date included, and skips 0.
C8_NoBoundsIsIdentity ==
    (Filtered /\ from_date = None /\ to_date = None) =>
        usage_data = usage_file /\ skipped = 0

\* The filter returned, without bounds, a file that has a record without a
\* resolvable date and a record with one.
C8_Witness ==
    /\ Filtered
    /\ from_date = None /\ to_date = None
    /\ \E i, j \in 1..Len(usage_file) :
          /\ extract_record_date(usage_file[i]) = None
          /\ extract_record_date(usage_file[j]) # None

\* C9: filter_usage_by_date is idempotent: filtering its kept output again
\* with the same bounds returns the same records in the same order and a
\* skipped count of 0.
C9_FilterIdempotent ==
    Filtered =>
        filter_usage_by_date(usage_data, from_date, to_date)
            = [filtered |-> usage_data, skipped |-> 0]

\* The filter returned, with a bound, after dropping a record and keeping one.
C9_Witness ==
    /\ Filtered
    /\ from_date # None
    /\ usage_data # <<>>
    /\ Len(usage_data) < Len(usage_file)
    /\ skipped > 0

\* The date lies in the window [from_date, to_date], an absent bound being
\* no bound.
InWindow(d) ==
    /\ from_date = None \/ ~DateLess(d, from_date)
    /\ to_date = None \/ ~DateLess(to_date, d)

\* C10: with at least one bound, filter_usage_by_date keeps exactly the
\* records whose resolved date lies in the window, both endpoints included,
\* in input order; skipped is the number of records without a resolvable
\* date, and records outside the window are not counted.
C10_KeepsExactlyTheWindow ==
    (Filtered /\ (from_date # None \/ to_date # None)) =>
        /\ usage_data =
              SelectSeq(usage_file,
                        LAMBDA r : /\ extract_record_date(r) # None
                                   /\ InWindow(extract_record_date(r)))
        /\ skipped = Cardinality({i \in 1..Len(usage_file) :
                                     extract_record_date(usage_file[i]) = None})

\* The filter returned, with both bounds, after keeping a record dated on
\* an endpoint, dropping one outside the window and skipping an undated one.
C10_Witness ==
    /\ Filtered
    /\ from_date # None /\ to_date # None
    /\ skipped > 0
    /\ Len(usage_data) + skipped < Len(usage_file)
    /\ \E i \in 1..Len(usage_data) :
          extract_record_date(usage_data[i]) \in {from_date, to_date}

\* The first loop of analyze_reservations_fixed has ended.
Registered == pc \notin {"main", "filter", "visible"}

NonSlash == {Ascii[i] : i \in 1..Len(Ascii)} \ {"/"}

\* The ID a Purchase record is registered under: the path segment right
\* after the first "reservationOrders/" that a segment follows, up to the
\* next '/'; None for a record that is no Purchase or has no such segment.
PurchaseIdOf(props) ==
    LET name == IF props.instanceName = None THEN <<>> ELSE props.instanceName.v
        pat == s_reservationOrders \o <<"/">>
        at == {p \in 1..Len(name) :
                 MatchAt(name, pat, p) /\ RunLen(name, p + Len(pat), NonSlash) > 0}
        b == MinOf(at) + Len(pat)
    IN  IF props.chargeType # Str(s_Purchase) \/ at = {} THEN None
        ELSE Str(SubSeq(name, b, b + RunLen(name, b, NonSlash) - 1))

\* The number written after the first 'D' that digits follow.
DigitRunAfterD(s) ==
    LET at == {p \in 1..Len(s) : s[p] = "D" /\ RunLen(s, p + 1, Digits) > 0}
        p == MinOf(at)
    IN  IF at = {} THEN 0
        ELSE ToInt(SubSeq(s, p + 1, p + RunLen(s, p + 1, Digits)))

\* The cores named by the Standard_ size token of a product of the
\* D<digits>[letters]_v<digits> convention; 0 for a product without a token.
SizeTokenCores(product) ==
    LET at == {p \in 1..Len(product) : MatchAt(product, s_Standard_, p)}
    IN  IF at = {} THEN 0
        ELSE DigitRunAfterD(Suffix(product, MinOf(at) + Len(s_Standard_) - 1))

\* C11: a Purchase record whose instanceName has a segment after
\* "reservationOrders/" is registered in visible_reservations under that
\* segment, a Purchase record without one is not registered, and the
\* analysis of a visible reservation reports as reserved cores the digit run
\* after 'D' in the Standard_ size token of its product (8 for
\* Standard_D8as_v5).
C11_PurchaseRegisteredWithCores ==
    Registered =>
        /\ DOMAIN visible_reservations =
              {PurchaseIdOf(usage_data[i]).v :
                  i \in {j \in 1..Len(usage_data) : PurchaseIdOf(usage_data[j]) # None}}
        /\ \A id \in DOMAIN visible_reservations :
              /\ PurchaseIdOf(visible_reservations[id]) = Str(id)
              /\ \E i \in 1..Len(usage_data) : usage_data[i] = visible_reservations[id]
        /\ \A i \in 1..Len(reservation_analyses) :
              LET a == reservation_analyses[i]
              IN  a.is_visible =>
                      a.reserved_cores
                          = SizeTokenCores(visible_reservations[a.reservation_id].product.v)

\* A finished report of a file with the purchase of Scenario A, analysed
\* with 8 reserved cores, and a purchase without an ID.
C11_Witness ==
    /\ pc = "done"
    /\ exit_status = "ok"
    /\ \E i \in 1..Len(reservation_analyses) :
          /\ reservation_analyses[i].reservation_id = Text.R1
          /\ reservation_analyses[i].is_visible
          /\ reservation_analyses[i].reserved_cores = 8
    /\ \E i \in 1..Len(usage_data) :
          /\ usage_data[i].chargeType = Str(s_Purchase)
          /\ PurchaseIdOf(usage_data[i]) = None

\* The events of a resource among the consumption records of a reservation.
EventsOf(recs, name) ==
    {j \in 1..Len(recs) : vm_short_name(recs[j].instance_name) = name}

\* C12: analyze_reservation_utilization aggregates the consumption events by
\* resource short name: each resource's cost and consumed hours are the
\* sums over all of its events (365 and 365 give 730), its service_types is
\* the set of the distinct non-empty service types of its events, and its
\* cores_used is the largest core count among them.
C12_AggregateSumsEvents ==
    \A i \in 1..Len(reservation_analyses) :
        LET a == reservation_analyses[i]
            recs == all_consumption[a.reservation_id]
        IN  /\ DOMAIN a.resource_usage =
                  {vm_short_name(recs[j].instance_name) : j \in 1..Len(recs)}
            /\ \A n \in DOMAIN a.resource_usage :
                  LET ev == EventsOf(recs, n)
                      u == a.resource_usage[n]
                  IN  /\ u.cost = SumOver([j \in ev |-> recs[j].cost], ev)
                      /\ u.consumed_hours
                            = SumOver([j \in ev |-> EventHours(recs[j])], ev)
                      /\ u.service_types = {recs[j].service_type : j \in ev} \ {<<>>}
                      /\ u.cores_used
                            = MaxOf({0} \cup {get_vm_core_count(recs[j].service_type) :
                                                j \in ev})

\* The bucket of a VM, a VM without one counting as all zero.
BucketOf(buckets, name) == IF name \in DOMAIN buckets THEN buckets[name] ELSE NewBucket

\* The loop of analyze_vm_coverage is at a record and goes on to the next.
CoverageStep == pc = "coverage" /\ idx <= Len(usage_data) /\ idx' = idx + 1

\* C13: a qualifying compute record with a positive payGPrice p, counted
\* with q hours, adds p*q to payg_equiv; it adds p*q to uncovered_payg_cost
\* and nothing to reserved_hours when it is not reservation-linked, and q to
\* reserved_hours and nothing to uncovered_payg_cost when it is; per VM and
\* in the grand totals alike.
C13_UncoveredOnlyWhenUnlinked ==
    [][LET r == usage_data[idx]
           n == vm_short_name(r.instanceName.v)
           old == BucketOf(vm, n)
           new == BucketOf(vm', n)
           p == r.payGPrice.v
           q == grand'.total_hours - grand.total_hours
       IN  (CoverageStep /\ is_compute(r) /\ IsNum(r.payGPrice) /\ p > 0) =>
               /\ new.total_hours = old.total_hours + q
               /\ new.payg_equiv = old.payg_equiv + p * q
               /\ grand'.payg_equiv = grand.payg_equiv + p * q
               /\ IF IsLinked(r)
                  THEN /\ new.uncovered_payg_cost = old.uncovered_payg_cost
                       /\ grand'.uncovered_payg_cost = grand.uncovered_payg_cost
                       /\ new.reserved_hours = old.reserved_hours + q
                       /\ grand'.reserved_hours = grand.reserved_hours + q
                  ELSE /\ new.uncovered_payg_cost = old.uncovered_payg_cost + p * q
                       /\ grand'.uncovered_payg_cost = grand.uncovered_payg_cost + p * q
                       /\ new.reserved_hours = old.reserved_hours
                       /\ grand'.reserved_hours = grand.reserved_hours]_vars

\* The coverage loop has ended over PAYG-priced hours of one VM, some
\* reservation-linked and some not.
C13_Witness ==
    /\ pc = "summary"
    /\ \E n \in DOMAIN vm :
          /\ vm[n].reserved_hours > 0
          /\ vm[n].uncovered_payg_cost > 0
          /\ vm[n].payg_equiv > vm[n].uncovered_payg_cost
    /\ \E i, j \in 1..Len(usage_data) :
          /\ IsLinked(usage_data[i]) /\ PaygKnown(usage_data[i])
          /\ ~IsLinked(usage_data[j]) /\ PaygKnown(usage_data[j])

\* The date fields in the order of preference: date, usageStart,
\* servicePeriodStartDate, and after them usageEnd, servicePeriodEndDate.
PreferenceOrder ==
    <<"date", "usageStart", "servicePeriodStartDate", "usageEnd", "servicePeriodEndDate">>

\* The positions of the preference order whose field is present and parses.
ParseableAt(props) ==
    {k \in 1..Len(PreferenceOrder) : parse_iso_date(props[PreferenceOrder[k]]) # None}

\* C14: extract_record_date returns the date of the first field, in the
\* order date, usageStart, servicePeriodStartDate, usageEnd,
\* servicePeriodEndDate, that is present and parseable, and None when no
\* field is; with date 2025-03-15 and servicePeriodStartDate 0001-01-01 it
\* returns 2025-03-15.
C14_FirstParseableFieldWins ==
    Filtered =>
        \A i \in 1..Len(usage_file) :
            LET props == usage_file[i]
                at == ParseableAt(props)
            IN  /\ extract_record_date(props)
                      = IF at = {} THEN None
                        ELSE parse_iso_date(props[PreferenceOrder[MinOf(at)]])
                /\ (/\ props.date = Str(Text.d0315)
                    /\ props.servicePeriodStartDate = Str(Text.dsentinel))
                   => extract_record_date(props) = Date(2025, 3, 15)

\* The filter ran with a bound over the record of Scenario F, a record
\* whose only parseable start field comes after an unparseable one, and a
\* record that has a start field and a different end field.
C14_Witness ==
    /\ Filtered
    /\ to_date # None
    /\ \E i, j, k \in 1..Len(usage_file) :
          /\ usage_file[i].date = Str(Text.d0315)
          /\ usage_file[i].servicePeriodStartDate = Str(Text.dsentinel)
          /\ usage_file[i] \in {usage_data[m] : m \in 1..Len(usage_data)}
          /\ parse_iso_date(usage_file[j].date) = None
          /\ usage_file[j].date # None
          /\ extract_record_date(usage_file[j]) = Date(2025, 3, 10)
          /\ ParseableAt(usage_file[k]) = {3, 4}

\* Both bounds are given and from is after to.
ReversedRange == from_date # None /\ to_date # None /\ DateLess(to_date, from_date)

\* C15: when both bounds are given and from > to, the run ends with a usage
\* error (exit status 2) straight from the range check: the file is not
\* loaded, no record is filtered, correlated or analysed, and no report
\* section is produced.
C15_ReversedRangeIsUsageError ==
    ReversedRange =>
        /\ pc \in {"main", "done"}
        /\ pc = "main" => exit_status = "running"
        /\ pc = "done" => exit_status = "usage_error"
        /\ usage_data = <<>>
        /\ skipped = 0
        /\ visible_reservations = EmptyDict
        /\ all_consumption = EmptyDict
        /\ all_reservations_seen = {}
        /\ reservation_analyses = <<>>
        /\ reservation_sections = <<>>
        /\ optimization = EmptyDict
        /\ vm = EmptyDict
        /\ grand = NewBucket
        /\ coverage = None

\* A run over a file with records was ended by the range check.
C15_Witness ==
    /\ ReversedRange
    /\ pc = "done"
    /\ exit_status = "usage_error"
    /\ usage_file # <<>>

\* The core counts that the service types of the consumption records yield.
CoreCountsOf(recs) == {get_vm_core_count(recs[j].service_type) : j \in 1..Len(recs)}

\* C16: for a hidden reservation, reserved_cores is the largest core count
\* that the service types of its consumption events yield (0 when none
\* yields one), and reserved_size is a service type of its events that
\* yields that count ("Unknown" when the count is 0).
C16_HiddenCoresAreMax ==
    \A i \in 1..Len(reservation_analyses) :
        LET a == reservation_analyses[i]
            recs == all_consumption[a.reservation_id]
            most == MaxOf({0} \cup CoreCountsOf(recs))
        IN  ~a.is_visible =>
                /\ a.reserved_cores = most
                /\ IF most = 0
                   THEN a.reserved_size = s_Unknown
                   ELSE /\ \E j \in 1..Len(recs) : recs[j].service_type = a.reserved_size
                        /\ get_vm_core_count(a.reserved_size) = most

\* A finished report with a hidden reservation whose events carry service
\* types of 4, of 8 and of no cores, reported with 8 reserved cores.
C16_Witness ==
    /\ pc = "done"
    /\ exit_status = "ok"
    /\ \E i \in 1..Len(reservation_analyses) :
          /\ ~reservation_analyses[i].is_visible
          /\ reservation_analyses[i].reserved_cores = 8
          /\ CoreCountsOf(all_consumption[reservation_analyses[i].reservation_id])
                = {0, 4, 8}

\* The field in lower case, an absent field being the empty string.
Lowered(props, key) == IF Truthy(props[key]) THEN Lower(props[key].v) ELSE <<>>

\* The field in lower case without the blanks around it.
Trimmed(props, key) == Strip(Lowered(props, key))

\* The filter predicate on the fields as they are, compared without case.
QualifiesAsIs(props) ==
    /\ Lowered(props, "meterCategory") = Lower(Text.VirtualMachines)
    /\ Lowered(props, "consumedService") = Lower(Text.MicrosoftCompute)
    /\ Contains(Lowered(props, "unitOfMeasure"), s_hour)

\* The filter predicate on the trimmed fields, compared without case.
QualifiesTrimmed(props) ==
    /\ Trimmed(props, "meterCategory") = Lower(Text.VirtualMachines)
    /\ Trimmed(props, "consumedService") = Lower(Text.MicrosoftCompute)
    /\ Contains(Trimmed(props, "unitOfMeasure"), s_hour)

C18_HoursAreTheQuantityField ==
    [][LET r == usage_data[idx]
           n == vm_short_name(r.instanceName.v)
           old == BucketOf(vm, n)
           new == BucketOf(vm', n)
       IN  (CoverageStep /\ is_compute(r)) =>
               /\ grand'.total_hours = grand.total_hours + r.quantity.v
               /\ new.total_hours = old.total_hours + r.quantity.v
               /\ grand'.total_cost = grand.total_cost + r.costInBillingCurrency.v
               /\ new.total_cost = old.total_cost + r.costInBillingCurrency.v
               /\ PaygKnown(r) =>
                     /\ grand'.payg_equiv
                           = grand.payg_equiv + r.payGPrice.v * r.quantity.v
                     /\ new.payg_equiv = old.payg_equiv + r.payGPrice.v * r.quantity.v]_vars

\* No record of the window carries PAYG pricing for compute hours.
NoPaygPricing ==
    \A i \in 1..Len(usage_data) : ~(is_compute(usage_data[i]) /\ PaygKnown(usage_data[i]))

\* C19: the bracketed savings estimate (cost/0.72 to cost/0.40) is a
\* fallback: the report of reservation costs carries it when no record of
\* the window has PAYG pricing, and when PAYG pricing is there the report
\* carries the calculated PAYG-based savings and not the estimate.
C19_EstimateIsFallbackOnly ==
    coverage # None =>
        /\ (NoPaygPricing /\ total_visible_cost > 0) =>
              /\ coverage.estimated # None
              /\ coverage.calculated = None
        /\ ~NoPaygPricing =>
              /\ coverage.calculated # None
              /\ coverage.estimated = None

\* The fields of a bucket.
BucketFields ==
    {"total_hours", "reserved_hours", "total_cost", "reserved_cost",
     "payg_equiv", "uncovered_payg_cost", "payg_known_hours"}

\* C20: after any prefix of the records, every field of the grand totals of
\* analyze_vm_coverage is the sum of that field over the per-VM buckets.
C20_GrandIsSumOfBuckets ==
    \A f \in BucketFields :
        grand[f] = SumOver([n \in DOMAIN vm |-> vm[n][f]], DOMAIN vm)

\* The coverage loop has passed records of two VMs that hold reserved
\* hours with a cost, uncovered PAYG cost and hours without a PAYG price.
C20_Witness ==
    /\ pc = "coverage"
    /\ Cardinality(DOMAIN vm) = 2
    /\ grand.reserved_cost > 0
    /\ grand.uncovered_payg_cost > 0
    /\ grand.payg_known_hours < grand.total_hours

\* The class of a reservation by its summed utilization: under-utilized
\* below 100%, exactly matched at 100%, over-subscribed above.
SummedClass(section) ==
    IF section.total_cores_used < section.reserved_cores THEN "under"
    ELSE IF section.total_cores_used = section.reserved_cores THEN "exact"
    ELSE "over"

\* The kinds of the warnings that the section of a reservation prints.
PrintedKinds(section) ==
    {section.resources[n].warning.kind :
        n \in {m \in DOMAIN section.resources : section.resources[m].warning # None}}

\* C21: for each reservation with reserved_cores > 0 the utilization
\* percentage is (sum of cores_used over its resources) / reserved_cores *
\* 100, and what the report flags for the reservation, under-utilized or
\* over-subscribed or nothing when exactly matched, is decided by that
\* summed percentage: no flag of another class is printed.
C21_ClassifiedBySummedUtilization ==
    \A i \in 1..Len(reservation_sections) :
        LET section == reservation_sections[i]
        IN  section.reserved_cores > 0 =>
              /\ section.utilization_pct
                    = Frac(section.total_cores_used * 100, section.reserved_cores)
              /\ PrintedKinds(section) \subseteq {SummedClass(section)}

\* The optimization analysis has been printed.
Optimized == pc \in {"coverage", "summary"} \/ (pc = "done" /\ exit_status = "ok")

\* The analyses that share the inferred size and the region of analysis i.
SameSizeAndRegion(i) ==
    {j \in 1..Len(reservation_analyses) :
        /\ reservation_analyses[j].reserved_size = reservation_analyses[i].reserved_size
        /\ reservation_analyses[j].region = reservation_analyses[i].region}

GroupReserved(S) == SumOver([j \in S |-> reservation_analyses[j].reserved_cores], S)
GroupUsed(S) == SumOver([j \in S |-> reservation_sections[j].total_cores_used], S)

\* The flag the thresholds give to used / reserved * 100.
ExpectedAdvice(used, reserved) ==
    IF used * 100 < 80 * reserved THEN "consolidate"
    ELSE IF used * 100 > 120 * reserved THEN "upsize"
    ELSE "none"

\* C22: the reservations of the same inferred size and region form one
\* group; every group of two or more reservations whose reserved cores sum
\* to more than 0 is reported with the combined efficiency (cores used
\* across the group) / (reserved cores across the group) * 100, flagged for
\* consolidation iff that is below 80, for upsizing iff it is above 120, and
\* not flagged in [80, 120].
C22_GroupEfficiencyThresholds ==
    Optimized =>
        \A i \in 1..Len(reservation_analyses) :
            LET members == SameSizeAndRegion(i)
                reserved == GroupReserved(members)
                used == GroupUsed(members)
            IN  (Cardinality(members) >= 2 /\ reserved > 0) =>
                  \E k \in DOMAIN optimization :
                     /\ optimization[k].members
                           = {reservation_analyses[j].reservation_id : j \in members}
                     /\ optimization[k].combined = Frac(used * 100, reserved)
                     /\ optimization[k].advice = ExpectedAdvice(used, reserved)

\* Two visible reservations of 10 cores each are used by 16 cores: the group
\* is reported at exactly 80% and is not flagged.
C22_Witness ==
    /\ Optimized
    /\ \E k \in DOMAIN optimization :
          /\ Cardinality(optimization[k].members) = 2
          /\ optimization[k].total_reserved_cores = 20
          /\ optimization[k].total_used_cores = 16
          /\ optimization[k].advice = "none"

\* The number of records the first loop of analyze_reservations_fixed has
\* gone through.
VisibleDone == IF pc = "visible" THEN idx - 1 ELSE Len(usage_data)

\* The positions, among the first n records, of the Purchase records of an ID.
PurchasesOf(id, n) == {i \in 1..n : PurchaseIdOf(usage_data[i]) = Str(id)}

\* C23: when several Purchase records carry the same reservation ID, the
\* first loop of analyze_reservations_fixed goes on without failing;
\* visible_reservations maps each ID to the last of its Purchase records in
\* input order, and it has as many entries as there are distinct IDs among
\* the Purchase records.
C23_LastPurchaseWins ==
    pc \notin {"main", "filter"} =>
        LET n == VisibleDone
            ids == {PurchaseIdOf(usage_data[i]).v :
                       i \in {j \in 1..n : PurchaseIdOf(usage_data[j]) # None}}
        IN  /\ DOMAIN visible_reservations = ids
            /\ Cardinality(DOMAIN visible_reservations) = Cardinality(ids)
            /\ \A id \in ids :
                  visible_reservations[id] = usage_data[MaxOf(PurchasesOf(id, n))]

\* A run that ended after two different Purchase records of one ID.
C23_Witness ==
    /\ pc = "done"
    /\ exit_status = "ok"
    /\ \E i, j \in 1..Len(usage_data) :
          /\ i < j
          /\ PurchaseIdOf(usage_data[i]) # None
          /\ PurchaseIdOf(usage_data[i]) = PurchaseIdOf(usage_data[j])
          /\ usage_data[i] # usage_data[j]
          /\ PurchasesOf(PurchaseIdOf(usage_data[i]).v, Len(usage_data)) = {i, j}
          /\ Cardinality(DOMAIN visible_reservations) = 1

\* C24: analyze_vm_coverage never fails because of the content of
\* additionalInfo: a compute record whose additionalInfo is not valid JSON,
\* or is valid JSON that is not an object carrying ReservationOrderId (a
\* list, a number, a string), is counted as not reservation-linked and the
\* pass goes on with the next record.
C24_CoverageSurvivesAnyInfo ==
    [][(/\ pc = "coverage"
        /\ idx <= Len(usage_data)
        /\ is_compute(usage_data[idx])
        /\ ~IsLinked(usage_data[idx]))
          => /\ pc' = "coverage"
             /\ idx' = idx + 1
             /\ grand'.reserved_hours = grand.reserved_hours]_vars

\* The elements of s at the positions of S, in the order of s.
RECURSIVE KeepAt(_, _, _)
KeepAt(s, S, i) ==
    IF i > Len(s) THEN <<>>
    ELSE (IF i \in S THEN <<s[i]>> ELSE <<>>) \o KeepAt(s, S, i + 1)

\* C25: the input records are read-only for the whole run.  The list read
\* from the file never changes; what filter_usage_by_date returns is made of
\* records of that list, unmodified and in their order; after the filter
\* none of analyze_reservations_fixed, analyze_reservation_utilization and
\* analyze_vm_coverage adds, removes, reorders or modifies a record of the
\* list it is given; and analyze_reservation_utilization leaves
\* visible_reservations and the consumption lists as they are.
C25_InputsAreReadOnly ==
    [][/\ usage_file' = usage_file
       /\ pc = "filter" =>
             \E S \in SUBSET (1..Len(usage_file)) : usage_data' = KeepAt(usage_file, S, 1)
       /\ pc \notin {"main", "filter"} => usage_data' = usage_data
       /\ pc = "reservations" =>
             /\ visible_reservations' = visible_reservations
             /\ all_consumption' = all_consumption]_vars

\* A run that ended after analysing a visible reservation with consumption
\* and counting compute hours, with the three records it started with.
C25_Witness ==
    /\ pc = "done"
    /\ exit_status = "ok"
    /\ Len(usage_file) = MaxRecords
    /\ usage_data = usage_file
    /\ \E i \in 1..Len(reservation_analyses) :
          /\ reservation_analyses[i].is_visible
          /\ reservation_analyses[i].reservation_id \in DOMAIN all_consumption
    /\ grand.total_hours > 0

\* The reservation that the reservation loop analyses next, when it is a
\* hidden one.
NextIsHidden ==
    /\ pc = "reservations"
    /\ idx <= Cardinality(all_reservations_seen)
    /\ Sorted(all_reservations_seen)[idx] \notin DOMAIN visible_reservations

\* C26: the analysis of a hidden reservation is the same whatever order the
\* set of its distinct service types is visited in, also when two service
\* types tie for the maximum core count: the same analysis, with the same
\* reserved_size and so the same size/region group key.
C26_AnalysisIgnoresVisitOrder ==
    NextIsHidden =>
        LET reservation_id == Sorted(all_reservations_seen)[idx]
            recs == all_consumption[reservation_id]
        IN  \A o1, o2 \in OrdersOf(ServiceTypesOf(recs)) :
              LET a1 == analyze_reservation_utilization(
                            reservation_id, recs, visible_reservations, o1)
                  a2 == analyze_reservation_utilization(
                            reservation_id, recs, visible_reservations, o2)
              IN  /\ a1.reserved_size = a2.reserved_size
                  /\ GroupKey(a1) = GroupKey(a2)
                  /\ a1 = a2

\* The sum of costInBillingCurrency over the reservations of
\* visible_reservations.
VisibleCostSum ==
    SumOver([id \in DOMAIN visible_reservations |->
                IF IsNum(visible_reservations[id].costInBillingCurrency)
                THEN visible_reservations[id].costInBillingCurrency.v ELSE 0],
            DOMAIN visible_reservations)

\* C27: the cost that the bracketed estimate and the summary use as the
\* total monthly cost of the visible reservations is the sum of
\* costInBillingCurrency over every reservation of visible_reservations,
\* those that no consumption record references included.
C27_VisibleCostCoversEveryPurchase ==
    Reported => total_visible_cost = VisibleCostSum

\* Record i is registered as the purchase of a visible reservation.
IsRegisteredPurchase(i) ==
    \E id \in DOMAIN visible_reservations : visible_reservations[id] = usage_data[i]

\* Record i has been appended to the consumption map as an event of the
\* reservation it links to.
IsConsumptionEvent(i) ==
    /\ IsLinked(usage_data[i])
    /\ LinkedId(usage_data[i]) \in DOMAIN all_consumption
    /\ \E k \in 1..Len(all_consumption[LinkedId(usage_data[i])]) :
          LET e == all_consumption[LinkedId(usage_data[i])][k]
          IN  /\ Str(e.instance_name) = usage_data[i].instanceName
              /\ Num(e.cost) = usage_data[i].costInBillingCurrency

\* C28: every record is of exactly one kind: once the correlator has
\* returned, no record is both registered as the purchase of a visible
\* reservation and appended to the consumption map, also when its
\* instanceName holds reservationOrders/<id> with chargeType Purchase and
\* its additionalInfo carries a ReservationOrderId.
C28_NoRecordIsPurchaseAndConsumption ==
    Correlated =>
        \A i \in 1..Len(usage_data) : ~(IsRegisteredPurchase(i) /\ IsConsumptionEvent(i))

\* Every qualifying compute record of the data whose hours can be read has
\* a non-negative hour quantity.
NonNegativeHours ==
    \A i \in 1..Len(usage_data) :
        LET props == usage_data[i]
            info == CoverageInfo(props)
        IN  (is_compute(props) /\ info.k = "object" /\ CoverageQty(info, props) # None)
              => CoverageQty(info, props).v >= 0

BucketBounded(b) ==
    /\ 0 <= b.reserved_hours
    /\ b.reserved_hours <= b.total_hours
    /\ b.payg_known_hours <= b.total_hours
    /\ 0 <= b.uncovered_payg_cost
    /\ b.uncovered_payg_cost <= b.payg_equiv

\* The printed percentage is reserved_hours / total_hours * 100 within
\* [0, 100], and 0 when there are no hours.
PctBounded(pct, b) ==
    IF b.total_hours = 0 THEN pct = Frac(0, 1)
    ELSE /\ pct = Frac(b.reserved_hours * 100, b.total_hours)
         /\ 0 <= pct.num
         /\ pct.num <= 100 * pct.den

\* C29: when every qualifying compute record has a non-negative hour
\* quantity, after any prefix of the records each per-VM bucket and the
\* aggregate satisfy 0 <= reserved_hours <= total_hours, payg_known_hours <=
\* total_hours and 0 <= uncovered_payg_cost <= payg_equiv, and the coverage
\* percentages the report prints lie in [0, 100] and are 0 when total_hours
\* is 0.
C29_CoverageBounds ==
    NonNegativeHours =>
        /\ BucketBounded(grand)
        /\ \A n \in DOMAIN vm : BucketBounded(vm[n])
        /\ coverage # None =>
              /\ PctBounded(coverage.coverage_pct, grand)
              /\ \A n \in DOMAIN vm : PctBounded(coverage.rows[n].pct, vm[n])

\* A report over a VM with reserved and unreserved hours, part of them
\* PAYG-priced, next to a VM without reserved hours.
C29_Witness ==
    /\ coverage # None
    /\ \E n \in DOMAIN vm :
          /\ 0 < vm[n].reserved_hours
          /\ vm[n].reserved_hours < vm[n].total_hours
          /\ 0 < vm[n].uncovered_payg_cost
          /\ vm[n].uncovered_payg_cost < vm[n].payg_equiv
    /\ \E n \in DOMAIN vm :
          /\ vm[n].reserved_hours = 0
          /\ vm[n].payg_known_hours < vm[n].total_hours

\* The records of all the pages of a version, in page order.
RECURSIVE PagesFrom(_, _)
PagesFrom(version, p) ==
    IF p > Len(server) THEN <<>>
    ELSE PageValue(version, p, server[p]) \o PagesFrom(version, p + 1)

\* The request failed: 'az rest' ended with a non-zero return code.
FailedRequest(r) == r.k = "failed"

\* The API answered with an error whose message names the api-version, in
\* any case of letters.
ApiVersionError(r) ==
    /\ r.k = "error"
    /\ r.message # None
    /\ Contains(Lower(r.message.v), s_api_version)

\* A turn of the loop is being made: a page is requested.
Requesting == fetch_status = "running" /\ url # None

\* What a step of a run may do about the fallback and about failures: the
\* fallback is taken at most once and only from 2023-05-01 to 2021-10-01; a
\* failed request or an API-version error under 2023-05-01 restarts at the
\* first page under 2021-10-01 with no record kept; a failure under another
\* version ends the run with status 1 and without a result.
FallbackRules ==
    /\ depth' <= 1
    /\ depth' # depth =>
          /\ depth' = depth + 1
          /\ api_version = NewestVersion
          /\ api_version' = FallbackVersion
    /\ api_version' # api_version => depth' = depth + 1
    /\ (/\ Requesting
        /\ api_version = NewestVersion
        /\ FailedRequest(response') \/ ApiVersionError(response'))
          => /\ api_version' = FallbackVersion
             /\ url' = [version |-> FallbackVersion, page |-> 1]
             /\ results' = <<>>
             /\ fetch_status' = "running"
    /\ (/\ Requesting
        /\ api_version # NewestVersion
        /\ response'.k \in {"failed", "error", "not_json"})
          => /\ fetch_status' = "exit1"
             /\ result' = None

\* C30, as stated: the fallback rules, and a returned result is the
\* concatenation, in page order, of the pages of one single API version.
C30_ResultIsThePagesOfOneVersion ==
    [][/\ FallbackRules
       /\ fetch_status' = "returned" =>
             \E v \in ApiVersions : result'.value = PagesFrom(v, 1)]_vars

\* The number that a field holding a numeric text is converted to; any
\* other field as it is.
AsNumber(x) ==
    IF x # None /\ x.t = "str" /\ x.v # <<>> /\ AllDigits(x.v)
    THEN Num(ToInt(x.v)) ELSE x

\* The records, in order, with their numeric fields as numbers.
WithNumbers(recs) ==
    [i \in 1..Len(recs) |->
        [name |-> recs[i].name,
         quantity |-> AsNumber(recs[i].quantity),
         payGPrice |-> AsNumber(recs[i].payGPrice)]]

\* C30, amended: the fallback rules, and a returned result is the
\* concatenation, in page order, of the pages of one single API version,
\* the version the last call ran under, each record with its numeric fields
\* converted to numbers where their text is numeric.
C30_ResultIsTheTypedPagesOfOneVersion ==
    [][/\ FallbackRules
       /\ fetch_status' = "returned" =>
             /\ result'.value = WithNumbers(PagesFrom(api_version', 1))
             /\ api_version' \in {requested, FallbackVersion}]_vars

\* A run asked for 2023-05-01 that fell back and returned the records of
\* two pages of 2021-10-01, one of them converted.
C30_Witness ==
    /\ fetch_status = "returned"
    /\ requested = NewestVersion
    /\ depth = 1
    /\ Len(server) >= 2
    /\ Len(result.value) = 4
    /\ result.value # PagesFrom(FallbackVersion, 1)
    /\ \A i \in 1..Len(result.value) : result.value[i].name[1] = FallbackVersion

====
